---- MODULE Spec2Model ----
(***************************************************************************)
(* Model of the plumbing layer of the git reimplementation: the loose      *)
(* object store (hash-object, cat-file) and the index file codec.          *)
(* Bytes are integers 0..255, byte strings are sequences of bytes.         *)
(***************************************************************************)
EXTENDS Integers, Sequences, FiniteSets, TLC

VARIABLES
    gitDirExists,      \* a .git directory is found from the current directory
    objectsDirExists,  \* <git_dir>/objects exists
    objDirs,           \* the two-character subdirectories of <git_dir>/objects
    objFiles,          \* path <<dir, file>> |-> bytes of the object file
    res,               \* what the last command returned
    indexFile,         \* [exists, bytes, from] of <git_dir>/index; from says what left the bytes
    idx,               \* what the last index operation did
    refFiles,          \* path (its components) |-> bytes of the file under <git_dir>/refs
    headFile,          \* bytes of <git_dir>/HEAD
    shown,             \* what the last show-ref did
    blobWriters,       \* process |-> where its write_blob call stands
    indexWriters       \* process |-> where its write_git_index call stands

vars == <<gitDirExists, objectsDirExists, objDirs, objFiles, res, indexFile, idx,
          refFiles, headFile, shown, blobWriters, indexWriters>>

objVars == <<gitDirExists, objectsDirExists, objDirs, objFiles, res>>
idxVars == <<indexFile, idx>>
refVars == <<refFiles, headFile, shown>>
conVars == <<blobWriters, indexWriters>>

-----------------------------------------------------------------------------
(* Bounds *)

\* most object files the store holds in the write specification
MaxObjects == 1
\* most records of a crafted tree object
MaxTreeEntries == 2
\* most entries of one index write
MaxEntries == 2
\* longest path of an index entry
MaxPathLen == 9
\* most ref files under <git_dir>/refs
MaxRefs == 3
\* a path whose length needs the high bits of the length field
LongPathLen == 300

-----------------------------------------------------------------------------
(* Byte strings *)


SP == 32
NUL == 0
NL == 10
TAB == 9

Min(a, b) == IF a < b THEN a ELSE b

Prefix(s, n) == SubSeq(s, 1, Min(n, Len(s)))

\* index of the first occurrence of byte b in s at or after pos, 0 when there is none
FirstIndex(s, pos, b) ==
    LET hits == {i \in pos..Len(s) : s[i] = b}
    IN  IF hits = {} THEN 0 ELSE CHOOSE i \in hits : \A j \in hits : i <= j

RECURSIVE Concat(_)
Concat(ss) == IF ss = <<>> THEN <<>> ELSE Head(ss) \o Concat(Tail(ss))

\* a join that also ends the last item with the separator
RECURSIVE Join_Terminated(_, _)
Join_Terminated(ss, sep) ==
    IF ss = <<>> THEN <<>>
    ELSE ss[1] \o <<sep>> \o Join_Terminated(Tail(ss), sep)

\* slice::join(&sep)
RECURSIVE Join(_, _)
Join(ss, sep) ==
    IF ss = <<>> THEN <<>>
    ELSE IF Len(ss) = 1 THEN ss[1]
    ELSE ss[1] \o <<sep>> \o Join(Tail(ss), sep)

\* the decimal rendering of a usize ({} of format!)
RECURSIVE FmtDecimal(_)
FmtDecimal(n) == IF n < 10 THEN <<48 + n>> ELSE FmtDecimal(n \div 10) \o <<48 + (n % 10)>>

IsDigits(s) == \A i \in 1..Len(s) : s[i] \in 48..57

RECURSIVE DigitsValue(_)
DigitsValue(s) == IF s = <<>> THEN 0 ELSE 10 * DigitsValue(SubSeq(s, 1, Len(s) - 1)) + (s[Len(s)] - 48)

\* str::parse::<usize>: decimal digits with an optional leading '+'; -1 is the Err
ParseUsize(s) ==
    LET d == IF s # <<>> /\ s[1] = 43 THEN Tail(s) ELSE s
    IN  IF d # <<>> /\ IsDigits(d) THEN DigitsValue(d) ELSE -1

HEX_CHARS == <<48, 49, 50, 51, 52, 53, 54, 55, 56, 57, 97, 98, 99, 100, 101, 102>>

\* hex::encode_in_place: every byte becomes its two lowercase hex digits
encode_in_place(bytes) ==
    [i \in 1..(2 * Len(bytes)) |->
        LET byte == bytes[(i + 1) \div 2]
        IN  IF i % 2 = 1 THEN HEX_CHARS[(byte \div 16) + 1] ELSE HEX_CHARS[(byte % 16) + 1]]

\* format!("{:x}", digest): the lowercase hex rendering of the digest
FmtLowerHex(digest) ==
    Concat([i \in 1..Len(digest) |->
        <<HEX_CHARS[(digest[i] \div 16) + 1], HEX_CHARS[(digest[i] % 16) + 1]>>])

-----------------------------------------------------------------------------
(* SHA-1 and zlib.  Both are library code; the digest is modelled by a     *)
(* 20-byte mixing function of the length and of three sums over the whole   *)
(* input, the zlib stream by a real zlib                                   *)
(* framing with one stored deflate block and the Adler-32 trailer.         *)

Modulus == 65521

\* <<sum of bytes, sum of i * byte, sum of byte squared>> over s[lo..hi], each modulo Modulus
RECURSIVE Sums(_, _, _)
Sums(s, lo, hi) ==
    IF lo > hi THEN <<0, 0, 0>>
    ELSE IF lo = hi THEN <<s[lo], (lo * s[lo]) % Modulus, (s[lo] * s[lo]) % Modulus>>
    ELSE LET mid == (lo + hi) \div 2
             l == Sums(s, lo, mid)
             r == Sums(s, mid + 1, hi)
         IN  <<(l[1] + r[1]) % Modulus, (l[2] + r[2]) % Modulus, (l[3] + r[3]) % Modulus>>

DigestLen == 20

\* the 20 bytes mixed from the sums t and the length n
Mix(t, n) ==
    LET a == (t[1] + n) % Modulus
        b == t[2]
        c == t[3]
    IN  [k \in 1..DigestLen |->
            CASE k = 1 -> a % 256
              [] k = 2 -> a \div 256
              [] k = 3 -> b % 256
              [] k = 4 -> b \div 256
              [] k = 5 -> c % 256
              [] k = 6 -> c \div 256
              [] k = 7 -> n % 256
              [] k = 8 -> n \div 256
              [] OTHER -> (a * k + b + c + n) % 256]

Sha1(s) == Mix(Sums(s, 1, Len(s)), Len(s) % 65536)

\* the Adler-32 checksum of n bytes with the sums t, big-endian
Adler32Of(t, n) ==
    LET a == (1 + t[1]) % Modulus
        b == (n + ((((n + 1) % Modulus) * t[1]) % Modulus) + Modulus - t[2]) % Modulus
    IN  <<b \div 256, b % 256, a \div 256, a % 256>>

Adler32(s) == Adler32Of(Sums(s, 1, Len(s)), Len(s))

\* ZlibEncoder::write_all + finish
ZlibCompress(s) ==
    LET n == Len(s)
    IN  <<120, 1>> \o <<1, n % 256, n \div 256, 255 - (n % 256), 255 - (n \div 256)>> \o s \o Adler32(s)

\* ZlibDecoder over a file: the bytes it yields and how the stream ends:
\* "eof", "trunc" (the file ends inside the stream) or "corrupt"
ZlibDecode(f) ==
    IF Len(f) < 2 THEN [data |-> <<>>, end |-> "trunc"]
    ELSE IF SubSeq(f, 1, 2) # <<120, 1>> THEN [data |-> <<>>, end |-> "corrupt"]
    ELSE IF Len(f) < 7 THEN [data |-> <<>>, end |-> "trunc"]
    ELSE IF f[3] # 1 \/ f[4] + f[6] # 255 \/ f[5] + f[7] # 255
         THEN [data |-> <<>>, end |-> "corrupt"]
    ELSE LET n == f[4] + 256 * f[5]
             avail == Len(f) - 7
         IN  IF avail < n THEN [data |-> SubSeq(f, 8, Len(f)), end |-> "trunc"]
             ELSE LET data == SubSeq(f, 8, 7 + n)
                  IN  IF avail < n + 4 THEN [data |-> data, end |-> "trunc"]
                      ELSE IF SubSeq(f, 8 + n, 11 + n) # Adler32(data)
                           THEN [data |-> <<>>, end |-> "corrupt"]
                      ELSE [data |-> data, end |-> "eof"]

-----------------------------------------------------------------------------
(* Object headers (utils/objects.rs) *)

ObjectTypes == {"blob", "tree", "commit", "tag"}

\* impl fmt::Display for ObjectType
TypeToken(object_type) ==
    CASE object_type = "blob" -> <<98, 108, 111, 98>>
      [] object_type = "tree" -> <<116, 114, 101, 101>>
      [] object_type = "commit" -> <<99, 111, 109, 109, 105, 116>>
      [] object_type = "tag" -> <<116, 97, 103>>

UnknownToken == <<117, 110, 107, 110, 111, 119, 110>>

\* a conversion that takes every token for a blob
ObjectTypeTryFrom_Any(value) == "blob"

\* impl TryFrom<&[u8]> for ObjectType: "" is the Err
ObjectTypeTryFrom(value) ==
    IF \E t \in ObjectTypes : TypeToken(t) = value
    THEN CHOOSE t \in ObjectTypes : TypeToken(t) = value
    ELSE ""

\* a header without the NUL
format_header_NoNul(object_type, size) == TypeToken(object_type) \o <<SP>> \o FmtDecimal(size)

\* format!("{} {}\0", object_type, content.len())
format_header(object_type, size) == TypeToken(object_type) \o <<SP>> \o FmtDecimal(size) \o <<NUL>>

\* a parse that keeps the last byte of the second part
parse_header_KeepNul(header) ==
    LET sp == FirstIndex(header, 1, SP)
    IN  IF sp = 0 THEN [ok |-> FALSE, object_type |-> <<>>, size |-> <<>>]
        ELSE [ok |-> TRUE,
              object_type |-> SubSeq(header, 1, sp - 1),
              size |-> SubSeq(header, sp + 1, Len(header))]

\* parse_header: split at the first space, drop the last byte of the second part
parse_header(header) ==
    LET sp == FirstIndex(header, 1, SP)
    IN  IF sp = 0 THEN [ok |-> FALSE, object_type |-> <<>>, size |-> <<>>]
        ELSE [ok |-> TRUE,
              object_type |-> SubSeq(header, 1, sp - 1),
              size |-> SubSeq(header, sp + 1, Len(header) - 1)]

-----------------------------------------------------------------------------
(* Reading a decompressed stream through a BufReader.  A stream is the     *)
(* bytes the decoder yields and whether it ends with an I/O error instead  *)
(* of end-of-file; pos is the index of the next unread byte.               *)

\* BufRead::read_until(delim): the bytes up to and including delim, or up to end-of-file
read_until(z, pos, delim) ==
    LET i == FirstIndex(z.data, pos, delim)
    IN  IF i # 0 THEN [ok |-> TRUE, buf |-> SubSeq(z.data, pos, i), pos |-> i + 1]
        ELSE IF z.err THEN [ok |-> FALSE, buf |-> <<>>, pos |-> pos]
        ELSE [ok |-> TRUE, buf |-> SubSeq(z.data, pos, Len(z.data)), pos |-> Len(z.data) + 1]

\* Read::read_to_end
read_to_end(z, pos) ==
    IF z.err THEN [ok |-> FALSE, buf |-> <<>>, pos |-> pos]
    ELSE [ok |-> TRUE, buf |-> SubSeq(z.data, pos, Len(z.data)), pos |-> Len(z.data) + 1]

\* Read::take(n).read_to_end
take_read_to_end(z, pos, n) ==
    IF Len(z.data) - pos + 1 >= n
    THEN [ok |-> TRUE, buf |-> SubSeq(z.data, pos, pos + n - 1), pos |-> pos + n]
    ELSE read_to_end(z, pos)

\* Vec::pop, the popped byte discarded
Pop(s) == SubSeq(s, 1, Len(s) - 1)

-----------------------------------------------------------------------------
(* hash-object: inputs (commands/hash_object.rs) *)

\* The ways the file system can fail one write_blob call: creating the first
\* missing directory, creating the object file, or writing its bytes (nothing
\* or half of them written)
Faults == {"none", "mkdir", "create", "write_none", "write_half"}

ObjectPath(hash) == <<SubSeq(hash, 1, 2), SubSeq(hash, 3, Len(hash))>>

\* the record "<mode> <name>\0<20-byte hash>" of a tree object
TreeRecord(mode, name, digest) == mode \o <<SP>> \o name \o <<NUL>> \o digest

Mode100644 == <<49, 48, 48, 54, 52, 52>>
Mode40000 == <<52, 48, 48, 48, 48>>

\* the contents given to hash-object: empty, "a" and a tree content
\* with one record for the blob "a"
Contents ==
    {<<>>, <<97>>,
     TreeRecord(Mode100644, <<102>>, Sha1(format_header("blob", 1) \o <<97>>))}

InputFiles ==
    {[exists |-> FALSE, content |-> <<>>]} \cup {[exists |-> TRUE, content |-> c] : c \in Contents}

\* a hash no object of the model has
AbsentHash == FmtLowerHex(Sha1(<<255>>))

StoredHashes == {p[1] \o p[2] : p \in DOMAIN objFiles}

-----------------------------------------------------------------------------
(* Crafted objects, written into the store the way the tests of cat-file   *)
(* do: any bytes under any name.                                           *)

LeafName1 == Sha1(<<1>>)
LeafName2 == Sha1(<<2>>)
TreeName == Sha1(<<3>>)

\* header "<token> <size>\0" followed by the content
CraftedObject(token, size, content) == token \o <<SP>> \o FmtDecimal(size) \o <<NUL>> \o content

LeafObjects ==
    {CraftedObject(TypeToken("blob"), 1, <<97>>),
     CraftedObject(TypeToken("blob"), 0, <<97>>),
     CraftedObject(UnknownToken, 1, <<97>>),
     CraftedObject(UnknownToken, 0, <<97>>),
     CraftedObject(TypeToken("commit"), 2, <<97, NL>>),
     CraftedObject(TypeToken("tag"), 3, <<97, NL>>)}

EmptyTreeObject == CraftedObject(TypeToken("tree"), 0, <<>>)

TreeEntries ==
    {[mode |-> Mode100644, name |-> <<97>>, hash |-> LeafName1],
     [mode |-> Mode40000, name |-> <<98, 46, 99>>, hash |-> LeafName2]}

\* the lists of n entries for every n up to MaxTreeEntries
TreeEntryLists == UNION {[1..n -> TreeEntries] : n \in 0..MaxTreeEntries}

\* the content of a tree object with the given entries
TreeContent(es) == Concat([i \in 1..Len(es) |-> TreeRecord(es[i].mode, es[i].name, es[i].hash)])

TreeContents == {TreeContent(es) : es \in TreeEntryLists}

\* contents that end inside a record
TruncatedTreeContents ==
    {Mode100644,
     Mode100644 \o <<SP, 97>>,
     Mode100644 \o <<SP, 97, NUL>> \o SubSeq(TreeName, 1, 1),
     TreeRecord(Mode100644, <<97>>, LeafName1) \o Mode40000 \o <<SP, 98, NUL>> \o SubSeq(LeafName2, 1, 19)}

TreeObjects ==
    {CraftedObject(TypeToken("tree"), Len(c) + d, c) : c \in TreeContents, d \in {0, 1}}
        \cup {CraftedObject(UnknownToken, Len(c), c) : c \in {TreeContent(<<e>>) : e \in TreeEntries}}
        \cup {CraftedObject(TypeToken("tree"), Len(c), c) : c \in TruncatedTreeContents}

CraftedNames == {LeafName1, LeafName2, TreeName}

CraftedObjects(name) ==
    CASE name = TreeName -> TreeObjects
      [] name = LeafName1 -> LeafObjects
      [] name = LeafName2 -> {EmptyTreeObject}

\* the hashes asked of cat-file over crafted objects: the crafted names, a
\* hash that is absent and one that is only a directory name
CatHashes ==
    {encode_in_place(TreeName), encode_in_place(LeafName1),
     AbsentHash, SubSeq(encode_in_place(TreeName), 1, 2)}

-----------------------------------------------------------------------------
(* The hashing, compression and decompression of the byte strings of the   *)
(* model, computed once.                                                   *)

HashedBlobs == {format_header(t, Len(c)) \o c : t \in ObjectTypes, c \in Contents}

\* the value the table holds for the key, computed where it holds none
Cached(table, key, computed) == IF key \in DOMAIN table THEN table[key] ELSE computed

HexDigestTable == [b \in HashedBlobs |-> FmtLowerHex(Sha1(b))] @@ <<>>

HexDigest(blob) == Cached(HexDigestTable, blob, FmtLowerHex(Sha1(blob)))

StoredObjects == HashedBlobs \cup LeafObjects \cup TreeObjects \cup {EmptyTreeObject}

CompressedTable == [b \in StoredObjects |-> ZlibCompress(b)] @@ <<>>

Compressed(bytes) == Cached(CompressedTable, bytes, ZlibCompress(bytes))

\* the files a write can leave: complete, empty or half written
StoredFiles ==
    UNION {{c, <<>>, Prefix(c, Len(c) \div 2)} : c \in {ZlibCompress(b) : b \in StoredObjects}}

DecodedTable == [f \in StoredFiles |-> ZlibDecode(f)] @@ <<>>

Decoded(file) == Cached(DecodedTable, file, ZlibDecode(file))

-----------------------------------------------------------------------------
(* The object store (utils/mod.rs) *)

\* Path::exists of <objects>/<dir>/<file>; an empty file component names the directory
PathExists(path) ==
    IF path[2] = <<>> THEN path[1] \in objDirs ELSE path \in DOMAIN objFiles

\* a lookup that never verifies existence
get_object_path_Unchecked(hash, check_exists) ==
    IF ~gitDirExists THEN [status |-> "err", path |-> <<>>]
    ELSE IF Len(hash) < 2 THEN [status |-> "panic", path |-> <<>>]
    ELSE [status |-> "ok", path |-> <<SubSeq(hash, 1, 2), SubSeq(hash, 3, Len(hash))>>]

\* get_object_path(hash, check_exists)
get_object_path(hash, check_exists) ==
    IF ~gitDirExists THEN [status |-> "err", path |-> <<>>]
    ELSE IF check_exists /\ ~objectsDirExists THEN [status |-> "err", path |-> <<>>]
    ELSE IF Len(hash) < 2 THEN [status |-> "panic", path |-> <<>>]
    ELSE LET object_path == <<SubSeq(hash, 1, 2), SubSeq(hash, 3, Len(hash))>>
         IN  IF check_exists /\ ~PathExists(object_path)
             THEN [status |-> "err", path |-> <<>>]
             ELSE [status |-> "ok", path |-> object_path]

\* File::open + ZlibDecoder::new + BufReader::new of an existing path.  Reading
\* a directory fails; truncErr says whether the decoder reports a stream that
\* ends early as an error or as end-of-file
StreamOf(d, truncErr) ==
    [data |-> d.data, err |-> d.end = "corrupt" \/ (d.end = "trunc" /\ truncErr)]

OpenStream(path, truncErr) ==
    IF path \notin DOMAIN objFiles THEN [data |-> <<>>, err |-> TRUE]
    ELSE StreamOf(Decoded(objFiles[path]), truncErr)

-----------------------------------------------------------------------------
(* cat-file (commands/cat_file.rs) *)

Failed(status) == [status |-> status, out |-> <<>>]

\* read_object_type once the stream zlib of the object file is open
read_type_of(zlib, allow_unknown_type) ==
    LET r == read_until(zlib, 1, SP)
        buf == Pop(r.buf)
    IN  IF ~r.ok THEN Failed("err")
        ELSE IF ~allow_unknown_type /\ ObjectTypeTryFrom(buf) = "" THEN Failed("err")
        ELSE [status |-> "ok", out |-> buf]

read_object_type(hash, allow_unknown_type, truncErr) ==
    LET object_path == get_object_path(hash, TRUE)
    IN  IF object_path.status # "ok" THEN Failed(object_path.status)
        ELSE read_type_of(OpenStream(object_path.path, truncErr), allow_unknown_type)

\* a size read that also compares the declared size with the bytes that follow
read_size_of_Checked(zlib, allow_unknown_type) ==
    LET r == read_until(zlib, 1, NUL)
        header == parse_header(r.buf)
    IN  IF ~r.ok THEN Failed("err")
        ELSE IF ~header.ok THEN Failed("err")
        ELSE IF ~allow_unknown_type /\ ObjectTypeTryFrom(header.object_type) = ""
        THEN Failed("err")
        ELSE IF ParseUsize(header.size) # Len(zlib.data) - Len(r.buf) THEN Failed("err")
        ELSE [status |-> "ok", out |-> header.size]

\* read_object_size once the stream zlib of the object file is open
read_size_of(zlib, allow_unknown_type) ==
    LET r == read_until(zlib, 1, NUL)
        header == parse_header(r.buf)
    IN  IF ~r.ok THEN Failed("err")
        ELSE IF ~header.ok THEN Failed("err")
        ELSE IF ~allow_unknown_type /\ ObjectTypeTryFrom(header.object_type) = ""
        THEN Failed("err")
        ELSE [status |-> "ok", out |-> header.size]

read_object_size(hash, allow_unknown_type, truncErr) ==
    LET object_path == get_object_path(hash, TRUE)
    IN  IF object_path.status # "ok" THEN Failed(object_path.status)
        ELSE read_size_of(OpenStream(object_path.path, truncErr), allow_unknown_type)

\* the loop of read_tree_pretty from position pos on: the rendered entries
\* and the number of bytes consumed
\* one entry and the entries after it: the rendered lines and the bytes read
tree_entries(mode, name, hash, object_type, rest) ==
    IF object_type.status # "ok" THEN [status |-> object_type.status, entries |-> <<>>, size |-> 0]
    ELSE IF rest.status # "ok" THEN rest
    ELSE [status |-> "ok",
          entries |-> <<mode \o object_type.out \o <<SP>> \o encode_in_place(hash)
                            \o <<TAB>> \o Pop(name)>> \o rest.entries,
          size |-> Len(mode) + Len(hash) + Len(name) + rest.size]

\* the loop of read_tree_pretty from position pos on: the rendered entries
\* and the number of bytes consumed
RECURSIVE read_tree_entries(_, _, _)
read_tree_entries(zlib, pos, truncErr) ==
    LET bad == [status |-> "err", entries |-> <<>>, size |-> 0]
        mode == read_until(zlib, pos, SP)
        name == read_until(zlib, mode.pos, NUL)
        hash == take_read_to_end(zlib, name.pos, 20)
    IN  IF ~mode.ok THEN bad
        ELSE IF mode.buf = <<>> THEN [status |-> "ok", entries |-> <<>>, size |-> 0]
        ELSE IF ~name.ok THEN bad
        ELSE IF ~hash.ok THEN bad
        ELSE tree_entries(mode.buf, name.buf, hash.buf,
                          read_object_type(encode_in_place(hash.buf), FALSE, truncErr),
                          read_tree_entries(zlib, hash.pos, truncErr))

\* the entries joined by a newline
joined(r) == [status |-> r.status, buf |-> Join(r.entries, NL), size |-> r.size]

\* read_tree_pretty: [status, buf, size]
read_tree_pretty(zlib, pos, truncErr) == joined(read_tree_entries(zlib, pos, truncErr))

\* a check that only rejects a declared size above the bytes read
size_mismatch_Above(header, object_size) == ParseUsize(header.size) > object_size

\* the check that the object size matches the header; a size that does not
\* parse is an error as well
size_mismatch(header, object_size) == ParseUsize(header.size) # object_size

\* the rest of the stream of an object that is not a tree: [status, buf, size]
read_rest(e) == [status |-> IF e.ok THEN "ok" ELSE "err", buf |-> e.buf, size |-> Len(e.buf)]

\* the end of read_object_pretty: the size check and the output
checked(header, body, exit) ==
    IF body.status # "ok" THEN Failed(body.status)
    ELSE IF size_mismatch(header, body.size) THEN Failed("err")
    ELSE IF exit THEN [status |-> "ok", out |-> <<>>]
    ELSE [status |-> "ok", out |-> body.buf]

\* read_object_pretty once the stream zlib of the object file is open
read_pretty_of(zlib, exit, truncErr) ==
    LET r == read_until(zlib, 1, NUL)
        header == parse_header(r.buf)
    IN  IF ~r.ok THEN Failed("err")
        ELSE IF ~header.ok THEN Failed("err")
        ELSE IF ObjectTypeTryFrom(header.object_type) = "" THEN Failed("err")
        ELSE checked(header,
                     IF ObjectTypeTryFrom(header.object_type) = "tree"
                     THEN read_tree_pretty(zlib, r.pos, truncErr)
                     ELSE read_rest(read_to_end(zlib, r.pos)),
                     exit)

read_object_pretty(hash, exit, truncErr) ==
    LET object_path == get_object_path(hash, TRUE)
    IN  IF object_path.status # "ok" THEN Failed(object_path.status)
        ELSE read_pretty_of(OpenStream(object_path.path, truncErr), exit, truncErr)

\* The flag combinations the argument parser accepts: one of -t, -s, -e, -p,
\* and --allow-unknown-type only with -t or -s
CatFileFlags ==
    {[flag |-> f, allow_unknown_type |-> a] : f \in {"t", "s", "e", "p"}, a \in BOOLEAN}
        \ {[flag |-> f, allow_unknown_type |-> TRUE] : f \in {"e", "p"}}

\* CatFileArgs::run
CatFileRun(args, hash, truncErr) ==
    CASE args.flag = "t" -> read_object_type(hash, args.allow_unknown_type, truncErr)
      [] args.flag = "s" -> read_object_size(hash, args.allow_unknown_type, truncErr)
      [] args.flag = "e" -> read_object_pretty(hash, TRUE, truncErr)
      [] args.flag = "p" -> read_object_pretty(hash, FALSE, truncErr)

CatFile(args, hash, truncErr) ==
    /\ res' = [op |-> "cat-file", args |-> args, hash |-> hash]
                @@ CatFileRun(args, hash, truncErr)
    /\ UNCHANGED <<gitDirExists, objectsDirExists, objDirs, objFiles, idxVars, refVars, conVars>>

-----------------------------------------------------------------------------
(* hash-object: writing (commands/hash_object.rs) *)

\* a write that fails when the directory of the object is already there
write_blob_NewDirOnly(blob, hash, fault) ==
    LET object_dir == SubSeq(hash, 1, 2)
        object_path == <<object_dir, SubSeq(hash, 3, Len(hash))>>
    IN  IF ~gitDirExists \/ fault # "none" \/ object_dir \in objDirs
        THEN [status |-> "err", objectsDir |-> objectsDirExists,
              dirs |-> objDirs, files |-> objFiles]
        ELSE [status |-> "ok", objectsDir |-> TRUE,
              dirs |-> objDirs \cup {object_dir},
              files |-> (object_path :> Compressed(blob)) @@ objFiles]

\* write_blob: the status and the store it leaves
write_blob(blob, hash, fault) ==
    LET object_dir == SubSeq(hash, 1, 2)
        object_path == <<object_dir, SubSeq(hash, 3, Len(hash))>>
        compressed == Compressed(blob)
        unchanged == [status |-> "err", objectsDir |-> objectsDirExists,
                      dirs |-> objDirs, files |-> objFiles]
        created == [status |-> "err", objectsDir |-> TRUE,
                    dirs |-> objDirs \cup {object_dir}, files |-> objFiles]
    IN  IF ~gitDirExists THEN unchanged
        ELSE IF fault = "mkdir" THEN unchanged
        ELSE IF fault = "create" THEN created
        ELSE IF fault = "write_none"
             THEN [created EXCEPT !.files = (object_path :> <<>>) @@ objFiles]
        ELSE IF fault = "write_half"
             THEN [created EXCEPT !.files =
                       (object_path :> Prefix(compressed, Len(compressed) \div 2)) @@ objFiles]
        ELSE [created EXCEPT !.status = "ok",
                             !.files = (object_path :> compressed) @@ objFiles]

\* a run that writes the object whether the write flag is given or not
HashObject_AlwaysWrites(write, file, object_type, fault) ==
    LET content == file.content
        blob == format_header(object_type, Len(content)) \o content
        hash == HexDigest(blob)
        w == write_blob(blob, hash, fault)
        call == [op |-> "hash-object", write |-> write, file |-> file,
                 object_type |-> object_type, fault |-> fault,
                 again |-> /\ res.op = "hash-object"
                           /\ res.status = "ok"
                           /\ res.write
                           /\ res.file = file
                           /\ res.object_type = object_type]
    IN  /\ fault # "none" => write /\ file.exists /\ gitDirExists
        /\ fault = "mkdir" => SubSeq(hash, 1, 2) \notin objDirs
        /\ \/ /\ ~file.exists
              /\ res' = call @@ [status |-> "err", out |-> <<>>]
              /\ UNCHANGED <<objectsDirExists, objDirs, objFiles>>
           \/ /\ file.exists
              /\ \/ SubSeq(hash, 1, 2) \in objDirs
                 \/ Cardinality(objDirs) < MaxObjects
              /\ \/ ObjectPath(hash) \in DOMAIN objFiles
                 \/ Cardinality(DOMAIN objFiles) < MaxObjects
              /\ objectsDirExists' = w.objectsDir
              /\ objDirs' = w.dirs
              /\ objFiles' = w.files
              /\ res' = call @@ [status |-> w.status,
                                 out |-> IF w.status = "ok" THEN hash \o <<NL>> ELSE <<>>]
        /\ UNCHANGED <<gitDirExists, idxVars, refVars, conVars>>

\* HashObjectArgs::run on a file that is missing or has the given content
HashObject(write, file, object_type, fault) ==
    LET content == file.content
        blob == format_header(object_type, Len(content)) \o content
        hash == HexDigest(blob)
        w == write_blob(blob, hash, fault)
        call == [op |-> "hash-object", write |-> write, file |-> file,
                 object_type |-> object_type, fault |-> fault,
                 again |-> /\ res.op = "hash-object"
                           /\ res.status = "ok"
                           /\ res.write
                           /\ res.file = file
                           /\ res.object_type = object_type]
    IN  /\ fault # "none" => write /\ file.exists /\ gitDirExists
        /\ fault = "mkdir" => SubSeq(hash, 1, 2) \notin objDirs
        /\ \/ /\ ~file.exists
              /\ res' = call @@ [status |-> "err", out |-> <<>>]
              /\ UNCHANGED <<objectsDirExists, objDirs, objFiles>>
           \/ /\ file.exists
              /\ ~write
              /\ res' = call @@ [status |-> "ok", out |-> hash \o <<NL>>]
              /\ UNCHANGED <<objectsDirExists, objDirs, objFiles>>
           \/ /\ file.exists
              /\ write
              /\ \/ SubSeq(hash, 1, 2) \in objDirs
                 \/ Cardinality(objDirs) < MaxObjects
              /\ \/ ObjectPath(hash) \in DOMAIN objFiles
                 \/ Cardinality(DOMAIN objFiles) < MaxObjects
              /\ objectsDirExists' = w.objectsDir
              /\ objDirs' = w.dirs
              /\ objFiles' = w.files
              /\ res' = call @@ [status |-> w.status,
                                 out |-> IF w.status = "ok" THEN hash \o <<NL>> ELSE <<>>]
        /\ UNCHANGED <<gitDirExists, idxVars, refVars, conVars>>

\* fs::create_dir_all + fs::write of the compressed bytes
PlantObject(name, raw) ==
    LET hash == encode_in_place(name)
    IN  /\ gitDirExists' = TRUE
        /\ objectsDirExists' = TRUE
        /\ objDirs' = objDirs \cup {SubSeq(hash, 1, 2)}
        /\ objFiles' = (ObjectPath(hash) :> Compressed(raw)) @@ objFiles
        /\ res' = [op |-> "plant", status |-> "ok", out |-> <<>>]
        /\ UNCHANGED <<idxVars, refVars, conVars>>

-----------------------------------------------------------------------------
(* The index file codec (index.rs) *)

INDEX_SIGNATURE == <<68, 73, 82, 67>>
INDEX_VERSION == 2

\* u32::to_be_bytes and u16::to_be_bytes
U32BE(v) == <<v \div 16777216, (v \div 65536) % 256, (v \div 256) % 256, v % 256>>
\* a little-endian u16
U16BE_Swapped(v) == <<v % 256, (v \div 256) % 256>>

U16BE(v) == <<(v \div 256) % 256, v % 256>>

\* u32::from_be_bytes and u16::from_be_bytes
FromBE(b) == IF Len(b) = 2 THEN b[1] * 256 + b[2]
             ELSE ((b[1] * 256 + b[2]) * 256 + b[3]) * 256 + b[4]

\* a padding that is empty when the entry is already aligned
calc_null_padding_Minimal(path_len) == (8 - ((6 + path_len) % 8)) % 8

calc_null_padding(path_len) == 8 - ((6 + path_len) % 8)

Zeros(n) == [i \in 1..n |-> 0]

\* impl TryFrom<u8> for MergeStatus: "" is the Err
MergeStatusTryFrom(value) ==
    CASE value = 0 -> "Unmerged"
      [] value = 1 -> "Base"
      [] value = 2 -> "Ours"
      [] value = 3 -> "Theirs"
      [] OTHER -> ""

\* flag bytes that keep all 16 bits of the length
write_flags_Wide(path_len) == <<(path_len % 65536) \div 256, path_len % 256>>

\* the two flag bytes the writer builds from the length of the path
write_flags(path_len) == <<((path_len % 65536) \div 256) % 16, path_len % 256>>

\* what the reader takes from the two flag bytes
flags_assume_valid(flags) == (flags[1] \div 128) % 2 = 1
\* a stage taken one bit higher
flags_stage_Bits14_13(flags) == MergeStatusTryFrom((flags[1] \div 32) % 4)

flags_stage(flags) == MergeStatusTryFrom((flags[1] \div 16) % 4)
flags_path_len(flags) == (flags[1] % 16) * 256 + flags[2]

\* String::from_utf8 on the paths of the model, which are ASCII
from_utf8_ok(bytes) == \A k \in 1..Len(bytes) : bytes[k] < 128

\* the bytes write_git_index writes for one entry
write_entry(entry) ==
    U32BE(entry.ctime_secs) \o U32BE(entry.ctime_nanos)
        \o U32BE(entry.mtime_secs) \o U32BE(entry.mtime_nanos)
        \o U32BE(entry.dev) \o U32BE(entry.ino) \o U32BE(entry.mode)
        \o U32BE(entry.uid) \o U32BE(entry.gid)
        \o U16BE(entry.size)
        \o entry.sha1
        \o write_flags(Len(entry.path))
        \o U16BE(0)
        \o entry.path
        \o Zeros(calc_null_padding(Len(entry.path)))

\* the entry write_git_index builds for a file, current_unix_time() being now
build_entry(file, now) ==
    [ctime_secs |-> now.secs, ctime_nanos |-> now.nanos,
     mtime_secs |-> now.secs, mtime_nanos |-> now.nanos,
     dev |-> file.dev, ino |-> file.ino, mode |-> file.mode,
     uid |-> file.uid, gid |-> file.gid,
     size |-> Len(file.content) % 65536,
     sha1 |-> Sha1(file.content),
     assume_valid |-> FALSE,
     stage |-> "Unmerged",
     path |-> file.path]

\* the bytes of the index file before the trailing checksum
index_body(entries) ==
    INDEX_SIGNATURE \o U32BE(2) \o U32BE(Len(entries))
        \o Concat([k \in 1..Len(entries) |-> write_entry(entries[k])])

\* Read::read_exact of n bytes at offset pos
read_exact(bytes, pos, n) ==
    IF pos + n <= Len(bytes)
    THEN [ok |-> TRUE, buf |-> SubSeq(bytes, pos + 1, pos + n), pos |-> pos + n]
    ELSE [ok |-> FALSE, buf |-> <<>>, pos |-> pos]

\* one round of the loop of read_git_index: the entry at offset pos
read_entry(bytes, pos) ==
    LET fixed == read_exact(bytes, pos, 58)
        flags == read_exact(bytes, pos + 58, 2)
    IN  IF ~fixed.ok \/ ~flags.ok THEN [ok |-> FALSE]
        ELSE LET f == fixed.buf
                 u32(k) == FromBE(SubSeq(f, 4 * k - 3, 4 * k))
                 stage == flags_stage(flags.buf)
                 path_len == flags_path_len(flags.buf)
                 path == read_exact(bytes, pos + 62, path_len)
             IN  IF stage = "" \/ ~path.ok THEN [ok |-> FALSE]
                 ELSE IF ~from_utf8_ok(path.buf) THEN [ok |-> FALSE]
                 ELSE [ok |-> TRUE,
                       entry |-> [ctime_secs |-> u32(1), ctime_nanos |-> u32(2),
                                  mtime_secs |-> u32(3), mtime_nanos |-> u32(4),
                                  dev |-> u32(5), ino |-> u32(6), mode |-> u32(7),
                                  uid |-> u32(8), gid |-> u32(9),
                                  size |-> FromBE(SubSeq(f, 37, 38)),
                                  sha1 |-> SubSeq(f, 39, 58),
                                  assume_valid |-> flags_assume_valid(flags.buf),
                                  stage |-> stage,
                                  path |-> path.buf],
                       pos |-> pos + 62 + path_len + calc_null_padding(path_len)]

RECURSIVE read_entries(_, _, _)
read_entries(bytes, pos, entry_count) ==
    IF entry_count = 0 THEN [ok |-> TRUE, entries |-> <<>>, pos |-> pos]
    ELSE LET e == read_entry(bytes, pos)
         IN  IF ~e.ok THEN [ok |-> FALSE, entries |-> <<>>, pos |-> pos]
             ELSE LET rest == read_entries(bytes, e.pos, entry_count - 1)
                  IN  IF ~rest.ok THEN rest
                      ELSE [ok |-> TRUE, entries |-> <<e.entry>> \o rest.entries, pos |-> rest.pos]

\* a check of the header that looks at the version first
header_error_VersionFirst(header) ==
    IF FromBE(SubSeq(header, 5, 8)) # INDEX_VERSION THEN "unsupported index version"
    ELSE IF SubSeq(header, 1, 4) # INDEX_SIGNATURE THEN "invalid index file signature"
    ELSE ""

\* the two checks of the 12 header bytes, "" when both pass
header_error(header) ==
    IF SubSeq(header, 1, 4) # INDEX_SIGNATURE THEN "invalid index file signature"
    ELSE IF FromBE(SubSeq(header, 5, 8)) # INDEX_VERSION THEN "unsupported index version"
    ELSE ""

\* the Err of read_git_index with the given message
index_error(message) == [ok |-> FALSE, entries |-> <<>>, error |-> message]

\* a reader that stops after the last entry
decode_entries_NoChecksum(bytes, entry_count) ==
    LET r == read_entries(bytes, 12, entry_count)
    IN  IF ~r.ok THEN index_error("read entry")
        ELSE [ok |-> TRUE, entries |-> r.entries, error |-> ""]

\* a reader that compares the trailing checksum with the digest of the bytes
\* before it
decode_entries_Verified(bytes, entry_count) ==
    LET r == read_entries(bytes, 12, entry_count)
    IN  IF ~r.ok THEN index_error("read entry")
        ELSE IF ~read_exact(bytes, r.pos, 20).ok THEN index_error("read trailing checksum")
        ELSE IF read_exact(bytes, r.pos, 20).buf # Sha1(SubSeq(bytes, 1, r.pos))
        THEN index_error("index file checksum mismatch")
        ELSE [ok |-> TRUE, entries |-> r.entries, error |-> ""]

\* read_git_index after the header checks
decode_entries(bytes, entry_count) ==
    LET r == read_entries(bytes, 12, entry_count)
    IN  IF ~r.ok THEN index_error("read entry")
        ELSE IF ~read_exact(bytes, r.pos, 20).ok THEN index_error("read trailing checksum")
        ELSE [ok |-> TRUE, entries |-> r.entries, error |-> ""]

\* read_git_index over the bytes of the index file: [ok, entries, error]
decode_index(bytes) ==
    LET header == read_exact(bytes, 0, 12)
    IN  IF ~header.ok THEN index_error("read index header")
        ELSE IF header_error(header.buf) # "" THEN index_error(header_error(header.buf))
        ELSE decode_entries(bytes, FromBE(SubSeq(header.buf, 9, 12)))

ReadGitIndex ==
    /\ idx' = IF ~gitDirExists \/ ~indexFile.exists
              THEN [op |-> "read"] @@ index_error("open index file")
              ELSE [op |-> "read"] @@ decode_index(indexFile.bytes)
    /\ UNCHANGED <<indexFile, objVars, refVars, conVars>>

\* the first error of the reads that precede the write: path.metadata() and
\* compute_sha1(path) of every file in turn, then git_dir(); "" when all succeed
input_error(files) ==
    LET bad == {k \in 1..Len(files) : ~files[k].exists \/ ~files[k].readable}
    IN  IF bad # {}
        THEN IF ~files[CHOOSE k \in bad : \A j \in bad : k <= j].exists
             THEN "read file metadata"
             ELSE "read file chunk"
        ELSE IF ~gitDirExists THEN "not a git repository"
        ELSE ""

inputs_ok(files) == input_error(files) = ""

\* the result of a whole write of the entries and the index file it leaves
written_index(entries) ==
    [ok |-> TRUE, entries |-> entries, error |-> "",
     file |-> [exists |-> TRUE, bytes |-> index_body(entries) \o Sha1(index_body(entries)),
               from |-> "write"]]

\* a write that creates the index file before it reads its inputs
write_git_index_CreateFirst(files, now, file) ==
    IF ~inputs_ok(files)
    THEN index_error(input_error(files)) @@ [file |-> [exists |-> TRUE, bytes |-> <<>>, from |-> "write"]]
    ELSE written_index([k \in 1..Len(files) |-> build_entry(files[k], now[k])])

\* write_git_index over the given files, now[k] being the time read for
\* file k and file the index file as it is: the result and the file it leaves
write_git_index(files, now, file) ==
    IF ~inputs_ok(files)
    THEN index_error(input_error(files)) @@ [file |-> file]
    ELSE written_index([k \in 1..Len(files) |-> build_entry(files[k], now[k])])

WriteGitIndexDone(files, w) ==
    /\ idx' = [op |-> "write", overlong |-> \E k \in 1..Len(files) : Len(files[k].path) >= 4096,
               ok |-> w.ok, entries |-> w.entries, error |-> w.error]
    /\ indexFile' = w.file

WriteGitIndex(files, now) ==
    /\ WriteGitIndexDone(files, write_git_index(files, now, indexFile))
    /\ UNCHANGED <<objVars, refVars, conVars>>

\* the path of n bytes "abc..."
PathOfLen(n) == [k \in 1..n |-> 97 + ((k - 1) % 26)]

WorkFile(path, ino, mode, uid, gid, content) ==
    [exists |-> TRUE, readable |-> TRUE, path |-> path, dev |-> 2049, ino |-> ino, mode |-> mode,
     uid |-> uid, gid |-> gid, content |-> content]

\* three files with different metadata, a file that does not exist, and a file
\* for every path length up to MaxPathLen
WorkFiles ==
    {WorkFile(<<115, 114, 99, 47, 109, 46, 114, 115>>, 131073, 33261, 0, 1000, <<104, 105, 10>>),
     WorkFile(<<97>>, 66000, 33188, 1000, 100, <<>>),
     WorkFile(<<100, 47, 101, 47, 102, 46, 116, 120, 116>>, 7, 33188, 501, 20, <<97>>),
     [WorkFile(<<122>>, 0, 0, 0, 0, <<>>) EXCEPT !.exists = FALSE]}

PathLenFiles ==
    {WorkFile(PathOfLen(n), 4242, 33188, 1000, 1000, <<120>>) : n \in (1..MaxPathLen) \cup {LongPathLen}}

\* a directory: its metadata can be read, its content cannot
Unreadable == [WorkFile(<<100>>, 9, 16877, 0, 0, <<>>) EXCEPT !.readable = FALSE]

\* the lists that end with the directory
UnreadableLists == {<<Unreadable>>, <<WorkFile(<<97>>, 66000, 33188, 1000, 100, <<>>), Unreadable>>}

FileLists ==
    UNION {[1..n -> WorkFiles] : n \in 0..MaxEntries} \cup {<<f>> : f \in PathLenFiles}
        \cup UnreadableLists

\* an entry as another writer may leave it: flag bytes f0 f1, then the two
\* reserved bytes, a path of path_len bytes and its padding
CraftedEntry(f0, f1, path_len) ==
    Zeros(36) \o U16BE(1) \o Zeros(20) \o <<f0, f1>> \o U16BE(0)
        \o PathOfLen(path_len) \o Zeros(calc_null_padding(path_len))

\* first flag bytes: each of the four high bits alone, all of them, and the
\* same with a set bit in the low nibble
FlagHighs == {0, 16, 32, 48, 64, 128, 240, 1, 241}
FlagLows == {0, 1, 9}

\* one-entry index files for every pair of flag bytes, the path having the
\* length the low 12 bits give, or eight bytes more
CraftedFlagIndexes ==
    {INDEX_SIGNATURE \o U32BE(2) \o U32BE(1)
        \o CraftedEntry(f0, f1, (f0 % 16) * 256 + f1 + extra) \o Zeros(20) :
            f0 \in FlagHighs, f1 \in FlagLows, extra \in {0, 8}}

\* "DIRC", "dirc", "DIRX" and four NUL bytes
CraftedSignatures == {INDEX_SIGNATURE, <<100, 105, 114, 99>>, <<68, 73, 82, 88>>, Zeros(4)}
\* 2, 3, 1, 0 in big-endian and 2 in little-endian
CraftedVersions == {U32BE(2), U32BE(3), U32BE(1), U32BE(0), <<2, 0, 0, 0>>}
\* nothing, an empty index, and an index of one entry
CraftedRests ==
    {<<>>, U32BE(0) \o Zeros(20), U32BE(1) \o CraftedEntry(0, 1, 1) \o Zeros(20)}

CraftedHeaderIndexes ==
    {sig \o ver \o rest : sig \in CraftedSignatures, ver \in CraftedVersions, rest \in CraftedRests}
        \cup {<<>>, <<68, 73, 82>>}

CraftedIndexes == CraftedFlagIndexes \cup CraftedHeaderIndexes

\* an index file some other program wrote at <git_dir>/index
PlantIndex(bytes) ==
    /\ gitDirExists
    /\ indexFile' = [exists |-> TRUE, bytes |-> bytes, from |-> "plant"]
    /\ idx' = [op |-> "plant", ok |-> TRUE, entries |-> <<>>, error |-> ""]
    /\ UNCHANGED <<objVars, refVars, conVars>>

\* the bytes are an index file as write_git_index leaves it for entries that
\* read_git_index returns: header, entries, and the digest of both
WholeIndex(bytes) ==
    /\ decode_index(bytes).ok
    /\ bytes = index_body(decode_index(bytes).entries) \o Sha1(index_body(decode_index(bytes).entries))

\* the lengths at which a write of len bytes may stop: inside the header,
\* after it, inside the fixed fields, the flags and the reserved bytes of the
\* first entry, inside its path, inside the last padding and inside the
\* trailing checksum
CutPoints(len) == {0, 3, 11, 12, 40, 70, 71, 73, 75, len - 21, len - 20, len - 1} \cap (0..(len - 1))

\* a write_git_index that stopped after n bytes: the file holds a proper
\* prefix of the bytes of a whole write
CutIndex(n) ==
    /\ indexFile.exists
    /\ indexFile.from = "write"
    /\ n \in CutPoints(Len(indexFile.bytes))
    /\ WholeIndex(indexFile.bytes)
    /\ indexFile' = [exists |-> TRUE, bytes |-> SubSeq(indexFile.bytes, 1, n), from |-> "cut"]
    /\ idx' = [op |-> "cut", ok |-> FALSE, entries |-> <<>>, error |-> "write"]
    /\ UNCHANGED <<objVars, refVars, conVars>>

\* trailing bytes that are no checksum: zeros, ones, and a digest of nothing
Checksums == {Zeros(20), [k \in 1..20 |-> 255], Sha1(<<>>)}

\* the last 20 bytes of a written index file are overwritten
ScribbleChecksum(checksum) ==
    /\ indexFile.exists
    /\ indexFile.from = "write"
    /\ WholeIndex(indexFile.bytes)
    /\ indexFile' = [exists |-> TRUE,
                     bytes |-> SubSeq(indexFile.bytes, 1, Len(indexFile.bytes) - 20) \o checksum,
                     from |-> "scribble"]
    /\ idx' = [op |-> "scribble", ok |-> TRUE, entries |-> <<>>, error |-> ""]
    /\ UNCHANGED <<objVars, refVars, conVars>>

\* path lengths that do not fit the 12 bits of the length field; whether
\* Path::metadata of such a path succeeds or fails with ENAMETOOLONG is up to
\* the system
OverlongPathLens == {4096, 4101}

\* the lists of files of the index writes that are cut or overwritten later
DamagedFileLists ==
    {<<>>, <<WorkFile(<<97>>, 66000, 33188, 1000, 100, <<>>)>>,
     <<WorkFile(<<115, 114, 99, 47, 109, 46, 114, 115>>, 131073, 33261, 0, 1000, <<104, 105, 10>>),
       WorkFile(<<100, 47, 101, 47, 102, 46, 116, 120, 116>>, 7, 33188, 501, 20, <<97>>)>>}
        \cup {<<f>> : f \in PathLenFiles}
        \cup {<<[WorkFile(PathOfLen(n), 4242, 33188, 1000, 1000, <<120>>) EXCEPT !.exists = x]>> :
                 n \in OverlongPathLens, x \in BOOLEAN}

Times == {[secs |-> 1700000000, nanos |-> 999999999], [secs |-> 2147483647, nanos |-> 0]}

-----------------------------------------------------------------------------
(* show-ref (commands/show_ref.rs). A path is the sequence of its          *)
(* components, each a byte string.                                         *)

\* '/'
SEP == 47

REFS == <<114, 101, 102, 115>>
HEADS == <<104, 101, 97, 100, 115>>
TAGS == <<116, 97, 103, 115>>
REMOTES == <<114, 101, 109, 111, 116, 101, 115>>
STASH == <<115, 116, 97, 115, 104>>
HEAD_NAME == <<72, 69, 65, 68>>
MAIN == <<109, 97, 105, 110>>
ORIGIN == <<111, 114, 105, 103, 105, 110>>
\* "ref: "
REF_PREFIX == <<114, 101, 102, 58, 32>>

\* the components of a relative path given as bytes (PathBuf::from)
RECURSIVE components(_)
components(bytes) ==
    IF bytes = <<>> THEN <<>>
    ELSE IF FirstIndex(bytes, 1, SEP) = 0 THEN <<bytes>>
    ELSE IF FirstIndex(bytes, 1, SEP) = 1 THEN components(Tail(bytes))
    ELSE <<SubSeq(bytes, 1, FirstIndex(bytes, 1, SEP) - 1)>>
             \o components(SubSeq(bytes, FirstIndex(bytes, 1, SEP) + 1, Len(bytes)))

\* Path::to_string_lossy
to_string_lossy(path) == Join(path, SEP)

\* Ord of byte strings: the first differing byte decides, a proper prefix is less
BytesLess(a, b) ==
    LET diff == {k \in 1..Min(Len(a), Len(b)) : a[k] # b[k]}
    IN  IF diff = {} THEN Len(a) < Len(b)
        ELSE \E k \in diff : (\A j \in diff : k <= j) /\ a[k] < b[k]

\* Ord of PathBuf, the order of the keys of the BTreeMap: the first differing
\* component decides, a proper prefix is less
PathLess(p, q) ==
    LET diff == {k \in 1..Min(Len(p), Len(q)) : p[k] # q[k]}
    IN  IF diff = {} THEN Len(p) < Len(q)
        ELSE \E k \in diff : (\A j \in diff : k <= j) /\ BytesLess(p[k], q[k])

\* BTreeMap::into_iter: the keys in ascending order
RECURSIVE into_iter(_)
into_iter(keys) ==
    IF keys = {} THEN <<>>
    ELSE LET first == CHOOSE m \in keys : \A q \in keys \ {m} : PathLess(m, q)
         IN  <<first>> \o into_iter(keys \ {first})

\* usize::clamp
clamp_Low(n, min, max) == IF n > max THEN max ELSE n

clamp(n, min, max) == IF n < min THEN min ELSE IF n > max THEN max ELSE n

\* Path::is_dir, Path::exists and read_dir over the ref files
under(files, dir) == {p \in DOMAIN files : Len(p) > Len(dir) /\ SubSeq(p, 1, Len(dir)) = dir}
is_dir(files, path) == under(files, path) # {}
exists(files, path) == path \in DOMAIN files \/ is_dir(files, path)
read_dir(files, dir) == {SubSeq(p, 1, Len(dir) + 1) : p \in under(files, dir)}

RefsErr == [ok |-> FALSE, refs |-> <<>>]

\* the entries of several maps with distinct keys in one map
merged(parts) ==
    IF \E r \in parts : ~r.ok THEN RefsErr
    ELSE [ok |-> TRUE,
          refs |-> [p \in UNION {DOMAIN r.refs : r \in parts} |->
                        (CHOOSE r \in parts : p \in DOMAIN r.refs).refs[p]]]

\* add_ref: the first 40 bytes of the file under its path relative to git_dir
add_ref(files, path) ==
    IF path \notin DOMAIN files \/ Len(files[path]) < 40 THEN RefsErr
    ELSE [ok |-> TRUE, refs |-> (path :> SubSeq(files[path], 1, 40))]

\* a stash that is read whether the file exists or not
add_ref_if_exists_Always(files, sub_path) == add_ref(files, sub_path)

add_ref_if_exists(files, sub_path) ==
    IF exists(files, sub_path) THEN add_ref(files, sub_path)
    ELSE [ok |-> TRUE, refs |-> <<>>]

\* read_refs: the refs the walk of subdir adds
RECURSIVE read_refs(_, _)
read_refs(files, subdir) ==
    IF ~exists(files, subdir) THEN [ok |-> TRUE, refs |-> <<>>]
    ELSE IF ~is_dir(files, subdir) THEN RefsErr
    ELSE merged({IF is_dir(files, e) THEN read_refs(files, e) ELSE add_ref(files, e) :
                    e \in read_dir(files, subdir)})

\* a selection in which --heads alone also reads the tags
selected_HeadsWithTags(args, files) ==
    merged({read_refs(files, <<REFS, HEADS>>), read_refs(files, <<REFS, TAGS>>)})

\* run: the reads the flags select
selected(args, files) ==
    merged((IF args.heads \/ ~args.tags THEN {read_refs(files, <<REFS, HEADS>>)} ELSE {})
        \cup (IF args.tags \/ ~args.heads THEN {read_refs(files, <<REFS, TAGS>>)} ELSE {})
        \cup (IF ~args.heads /\ ~args.tags
              THEN {read_refs(files, <<REFS, REMOTES>>), add_ref_if_exists(files, <<REFS, STASH>>)}
              ELSE {}))

\* read_head: the path the HEAD file names
head_target(head) == components(Pop(SubSeq(head, 6, Len(head))))

\* a HEAD that is resolved only when its target was collected
read_head_ReuseOnly(files, head, r) ==
    IF ~r.ok THEN r
    ELSE IF head_target(head) \in DOMAIN r.refs
    THEN [r EXCEPT !.refs = (<<HEAD_NAME>> :> r.refs[head_target(head)]) @@ r.refs]
    ELSE RefsErr

\* read_head after the reads r
read_head(files, head, r) ==
    IF ~r.ok THEN r
    ELSE IF head_target(head) \in DOMAIN r.refs
    THEN [r EXCEPT !.refs = (<<HEAD_NAME>> :> r.refs[head_target(head)]) @@ r.refs]
    ELSE IF head_target(head) \in DOMAIN files /\ Len(files[head_target(head)]) >= 40
    THEN [r EXCEPT !.refs = (<<HEAD_NAME>> :> SubSeq(files[head_target(head)], 1, 40)) @@ r.refs]
    ELSE RefsErr

\* a HEAD that is read whatever the flag says
collected_AlwaysHead(args, files, head) == read_head(files, head, selected(args, files))

\* run: the map after all reads
collected(args, files, head) ==
    IF args.head THEN read_head(files, head, selected(args, files))
    ELSE selected(args, files)

\* a line that shows the hash-only limit but keeps the path
line_KeepPath(args, path, hash) ==
    IF args.hash # <<>>
    THEN SubSeq(hash, 1, clamp(args.hash[1], 4, 40)) \o <<SP>> \o to_string_lossy(path)
    ELSE SubSeq(hash, 1, clamp(args.abbrev, 4, 40)) \o <<SP>> \o to_string_lossy(path)

\* run: the line of one entry of the map
line(args, path, hash) ==
    IF args.hash # <<>> THEN SubSeq(hash, 1, clamp(args.hash[1], 4, 40))
    ELSE SubSeq(hash, 1, clamp(args.abbrev, 4, 40)) \o <<SP>> \o to_string_lossy(path)

\* run: the lines in the order of the map
lines(args, refs, order) == [k \in 1..Len(order) |-> line(args, order[k], refs[order[k]])]

\* run: what it returns and the bytes it writes
written(args, r) ==
    IF ~r.ok THEN [op |-> "show-ref", args |-> args, status |-> "error", out |-> <<>>]
    ELSE [op |-> "show-ref", args |-> args, status |-> "ok",
          out |-> Join(lines(args, r.refs, into_iter(DOMAIN r.refs)), NL)]

run(args, files, head) == written(args, collected(args, files, head))

ShowRef(args) ==
    /\ shown' = IF ~gitDirExists
                THEN [op |-> "show-ref", args |-> args, status |-> "error", out |-> <<>>]
                ELSE run(args, refFiles, headFile)
    /\ UNCHANGED <<refFiles, headFile, objVars, idxVars, conVars>>

\* the 40 hex digits ref file number i holds
RefHash(i) == [k \in 1..40 |-> HEX_CHARS[((k * (i + 1) + i) % 16) + 1]]

\* the ref files of the model: branches "main", "a-b" and "a/b", a tag, a
\* remote branch, the symbolic ref of the remote, and the stash
RefNames ==
    <<<<REFS, HEADS, MAIN>>,
      <<REFS, HEADS, <<97, 45, 98>>>>,
      <<REFS, HEADS, <<97>>, <<98>>>>,
      <<REFS, TAGS, <<118, 49, 46, 48>>>>,
      <<REFS, REMOTES, ORIGIN, MAIN>>,
      <<REFS, REMOTES, ORIGIN, HEAD_NAME>>,
      <<REFS, STASH>>>>

\* what is written to ref file i: the hash, with a newline for every other
\* file, or a symbolic ref
RefContent(i) ==
    IF RefNames[i] = <<REFS, REMOTES, ORIGIN, HEAD_NAME>>
    THEN REF_PREFIX \o to_string_lossy(<<REFS, REMOTES, ORIGIN, MAIN>>) \o <<NL>>
    ELSE IF i % 2 = 1 THEN RefHash(i) \o <<NL>> ELSE RefHash(i)

\* a ref file is written (create_dir_all of its directory, fs::write)
UpdateRef(i) ==
    /\ gitDirExists
    /\ RefNames[i] \notin DOMAIN refFiles
    /\ Cardinality(DOMAIN refFiles) < MaxRefs
    /\ refFiles' = (RefNames[i] :> RefContent(i)) @@ refFiles
    /\ shown' = [op |-> "update-ref", args |-> <<>>, status |-> "ok", out |-> <<>>]
    /\ UNCHANGED <<headFile, objVars, idxVars, conVars>>

\* init::get_head_ref_content: "ref: refs/heads/<initial_branch>\n"
get_head_ref_content(initial_branch) ==
    REF_PREFIX \o to_string_lossy(<<REFS, HEADS, initial_branch>>) \o <<NL>>

\* HEAD on the branch main or on the tag, each of which may not be written yet
HeadContents ==
    {get_head_ref_content(MAIN),
     REF_PREFIX \o to_string_lossy(<<REFS, TAGS, <<118, 49, 46, 48>>>>) \o <<NL>>}

\* the same pointers as an editor may leave them, without the newline
BareHeadContents == {Pop(content) : content \in HeadContents}

\* HEAD is pointed at another ref
WriteHead(content) ==
    /\ gitDirExists
    /\ headFile' = content
    /\ shown' = [op |-> "write-head", args |-> <<>>, status |-> "ok", out |-> <<>>]
    /\ UNCHANGED <<refFiles, objVars, idxVars, conVars>>

\* values of --abbrev and --hash below, inside and above the interval [4, 40]
Numbers == {0, 3, 5, 40, 41}

ShowRefArgs(head, heads, tags, hash, abbrev) ==
    [head |-> head, heads |-> heads, tags |-> tags, hash |-> hash, abbrev |-> abbrev]

\* every combination of the flags with the default lengths, and every pair of
\* lengths with --head alone
ArgSets ==
    {ShowRefArgs(h, hs, ts, <<>>, 40) : h \in BOOLEAN, hs \in BOOLEAN, ts \in BOOLEAN}
        \cup {ShowRefArgs(TRUE, FALSE, FALSE, hash, abbrev) :
                hash \in {<<>>} \cup {<<n>> : n \in Numbers}, abbrev \in Numbers}

-----------------------------------------------------------------------------
(* Two processes in write_blob (commands/hash_object.rs): each call is     *)
(* its system calls, one step each, over the store both processes share.   *)

Procs == {1, 2}

\* two blobs whose digests begin with the same two hex characters, so that
\* both objects go to one directory
RaceBlobs ==
    {format_header("blob", 2) \o <<97, 98>>, format_header("blob", 2) \o <<98, 97>>}

\* a file write at an offset: the bytes of data replace what the file holds
\* there, and a gap before the offset reads as zeros
write_at(bytes, offset, data) ==
    [k \in 1..(IF Len(bytes) > offset + Len(data) THEN Len(bytes) ELSE offset + Len(data)) |->
        IF k > offset /\ k <= offset + Len(data) THEN data[k - offset]
        ELSE IF k <= Len(bytes) THEN bytes[k]
        ELSE 0]

IdleBlobWriter == [pc |-> "idle", blob |-> <<>>, hash |-> <<>>, status |-> "", mkdirs |-> <<>>]

\* a directory creation that takes an existing directory for an error
mkdir_or_is_dir_Strict(present, parent_present) ==
    IF present THEN "err"
    ELSE IF ~parent_present THEN "NotFound"
    ELSE "Created"

\* one mkdir of create_dir_all, with its is_dir test when mkdir fails: the
\* directory is there already, its parent is missing, or it is created
mkdir_or_is_dir(present, parent_present) ==
    IF present THEN "Exists"
    ELSE IF ~parent_present THEN "NotFound"
    ELSE "Created"

\* write_blob starts: git_object_dir()
BlobBegin(p, blob) ==
    /\ blobWriters[p].pc \in {"idle", "done"}
    /\ blobWriters' = [blobWriters EXCEPT ![p] =
            [pc |-> IF gitDirExists THEN "mkdir" ELSE "done",
             blob |-> blob, hash |-> HexDigest(blob),
             status |-> IF gitDirExists THEN "" ELSE "err", mkdirs |-> <<>>]]
    /\ UNCHANGED <<objVars, idxVars, refVars, indexWriters>>

\* create_dir_all: mkdir of <objects>/<hash[..2]>
BlobMkdir(p) ==
    LET w == blobWriters[p]
        object_dir == SubSeq(w.hash, 1, 2)
        made == mkdir_or_is_dir(object_dir \in objDirs, objectsDirExists)
    IN  /\ w.pc \in {"mkdir", "mkdir_again"}
        /\ objDirs' = IF made = "Created" THEN objDirs \cup {object_dir} ELSE objDirs
        /\ blobWriters' = [blobWriters EXCEPT ![p] =
                [w EXCEPT !.pc = IF made = "NotFound" THEN "parent"
                                 ELSE IF made = "err" THEN "done"
                                 ELSE "create",
                          !.status = IF made = "err" THEN "err" ELSE "",
                          !.mkdirs = Append(w.mkdirs, made)]]
        /\ UNCHANGED <<gitDirExists, objectsDirExists, objFiles, res, idxVars, refVars, indexWriters>>

\* create_dir_all: mkdir of <objects>, the parent that was missing
BlobMkdirParent(p) ==
    LET w == blobWriters[p]
        made == mkdir_or_is_dir(objectsDirExists, gitDirExists)
    IN  /\ w.pc = "parent"
        /\ objectsDirExists' = TRUE
        /\ blobWriters' = [blobWriters EXCEPT ![p] =
                [w EXCEPT !.pc = IF made = "err" THEN "done" ELSE "mkdir_again",
                          !.status = IF made = "err" THEN "err" ELSE "",
                          !.mkdirs = Append(w.mkdirs, made)]]
        /\ UNCHANGED <<gitDirExists, objDirs, objFiles, res, idxVars, refVars, indexWriters>>

\* std::fs::write: the object file is created, or emptied when it is there
BlobCreate(p) ==
    LET w == blobWriters[p]
    IN  /\ w.pc = "create"
        /\ objFiles' = (ObjectPath(w.hash) :> <<>>) @@ objFiles
        /\ blobWriters' = [blobWriters EXCEPT ![p] = [w EXCEPT !.pc = "write"]]
        /\ UNCHANGED <<gitDirExists, objectsDirExists, objDirs, res, idxVars, refVars, indexWriters>>

\* std::fs::write: the compressed bytes go to the start of the file, and
\* write_blob returns
BlobWrite(p) ==
    LET w == blobWriters[p]
        object_path == ObjectPath(w.hash)
    IN  /\ w.pc = "write"
        /\ objFiles' = [objFiles EXCEPT ![object_path] = write_at(objFiles[object_path], 0, Compressed(w.blob))]
        /\ blobWriters' = [blobWriters EXCEPT ![p] = [w EXCEPT !.pc = "done", !.status = "ok"]]
        /\ UNCHANGED <<gitDirExists, objectsDirExists, objDirs, res, idxVars, refVars, indexWriters>>

-----------------------------------------------------------------------------
(* Two processes in write_git_index (index.rs): the file is created or     *)
(* emptied, the header is written, every entry is written, the file on     *)
(* disk is digested, and the digest is written; each process writes at the *)
(* offset of its own file handle.                                          *)

IdleIndexWriter ==
    [pc |-> "idle", entries |-> <<>>, k |-> 0, offset |-> 0, checksum |-> <<>>,
     status |-> "", overlap |-> FALSE]

\* the lists the two processes write: one file, and two other files
RaceFileLists ==
    {<<WorkFile(<<97>>, 66000, 33188, 1000, 100, <<>>)>>,
     <<WorkFile(<<115, 114, 99, 47, 109, 46, 114, 115>>, 131073, 33261, 0, 1000, <<104, 105, 10>>),
       WorkFile(<<100, 47, 101, 47, 102, 46, 116, 120, 116>>, 7, 33188, 501, 20, <<97>>)>>}

InFlight(w) == w.pc \notin {"idle", "done"}

\* an open of the index file that keeps what the file holds
File_create_Keep(bytes) == bytes

\* File::create: what the file holds is dropped
File_create(bytes) == <<>>

\* write_git_index starts: the entries are built from the files, and
\* git_dir() is resolved; every process writes the index once
IndexBegin(p, files, now) ==
    LET ok == inputs_ok(files)
    IN  /\ indexWriters[p].pc = "idle"
        /\ indexWriters' = [q \in Procs |->
                IF q = p
                THEN [pc |-> IF ok THEN "create" ELSE "done",
                      entries |-> IF ok THEN [k \in 1..Len(files) |-> build_entry(files[k], now[k])]
                                  ELSE <<>>,
                      k |-> 1, offset |-> 0, checksum |-> <<>>,
                      status |-> IF ok THEN "" ELSE "err",
                      overlap |-> ok /\ \E o \in Procs \ {p} : InFlight(indexWriters[o])]
                ELSE [indexWriters[q] EXCEPT !.overlap = @ \/ (ok /\ InFlight(indexWriters[q]))]]
        /\ UNCHANGED <<objVars, idxVars, refVars, blobWriters>>

\* File::create(&index_path)
IndexCreate(p) ==
    LET w == indexWriters[p]
    IN  /\ w.pc = "create"
        /\ indexFile' = [exists |-> TRUE, bytes |-> File_create(indexFile.bytes), from |-> "race"]
        /\ indexWriters' = [indexWriters EXCEPT ![p] = [w EXCEPT !.pc = "header", !.offset = 0]]
        /\ UNCHANGED <<objVars, idx, refVars, blobWriters>>

\* the signature, the version and the entry count are written
IndexWriteHeader(p) ==
    LET w == indexWriters[p]
        header == INDEX_SIGNATURE \o U32BE(2) \o U32BE(Len(w.entries))
    IN  /\ w.pc = "header"
        /\ indexFile' = [indexFile EXCEPT !.bytes = write_at(@, w.offset, header)]
        /\ indexWriters' = [indexWriters EXCEPT ![p] =
                [w EXCEPT !.pc = "entries", !.offset = @ + Len(header)]]
        /\ UNCHANGED <<objVars, idx, refVars, blobWriters>>

\* the fields, the flags, the path and the padding of the next entry are
\* written
IndexWriteEntry(p) ==
    LET w == indexWriters[p]
    IN  /\ w.pc = "entries"
        /\ w.k <= Len(w.entries)
        /\ indexFile' = [indexFile EXCEPT !.bytes = write_at(@, w.offset, write_entry(w.entries[w.k]))]
        /\ indexWriters' = [indexWriters EXCEPT ![p] =
                [w EXCEPT !.k = @ + 1, !.offset = @ + Len(write_entry(w.entries[w.k]))]]
        /\ UNCHANGED <<objVars, idx, refVars, blobWriters>>

\* file.sync_all() and compute_sha1(&index_path): the digest of what the
\* file on disk holds
IndexChecksum(p) ==
    LET w == indexWriters[p]
    IN  /\ w.pc = "entries"
        /\ w.k > Len(w.entries)
        /\ indexWriters' = [indexWriters EXCEPT ![p] =
                [w EXCEPT !.pc = "trailer", !.checksum = Sha1(indexFile.bytes)]]
        /\ UNCHANGED <<objVars, idxVars, refVars, blobWriters>>

\* the digest is written, and write_git_index returns
IndexWriteChecksum(p) ==
    LET w == indexWriters[p]
    IN  /\ w.pc = "trailer"
        /\ indexFile' = [indexFile EXCEPT !.bytes = write_at(@, w.offset, w.checksum)]
        /\ indexWriters' = [indexWriters EXCEPT ![p] =
                [w EXCEPT !.pc = "done", !.status = "ok", !.offset = @ + Len(w.checksum)]]
        /\ UNCHANGED <<objVars, idx, refVars, blobWriters>>

-----------------------------------------------------------------------------
Init ==
    /\ gitDirExists \in BOOLEAN
    /\ objectsDirExists = FALSE
    /\ objDirs = {}
    /\ objFiles = <<>>
    /\ res = [op |-> "none", status |-> "ok", out |-> <<>>]
    /\ indexFile = [exists |-> FALSE, bytes |-> <<>>, from |-> "none"]
    /\ idx = [op |-> "none", ok |-> TRUE, entries |-> <<>>, error |-> ""]
    /\ refFiles = <<>>
    /\ headFile = get_head_ref_content(MAIN)
    /\ shown = [op |-> "none", args |-> <<>>, status |-> "ok", out |-> <<>>]
    /\ blobWriters = [p \in Procs |-> IdleBlobWriter]
    /\ indexWriters = [p \in Procs |-> IdleIndexWriter]

NextHashObject ==
    \E write \in BOOLEAN, file \in InputFiles, object_type \in ObjectTypes, fault \in Faults :
        HashObject(write, file, object_type, fault)

NextCatStored ==
    \E args \in CatFileFlags, hash \in StoredHashes \cup {AbsentHash}, truncErr \in BOOLEAN :
        CatFile(args, hash, truncErr)

Next == NextHashObject \/ NextCatStored

\* hash-object writes and cat-file reads of what they stored
Spec == Init /\ [][Next]_vars

NextPlant == \E name \in CraftedNames : \E raw \in CraftedObjects(name) : PlantObject(name, raw)

NextCatCrafted ==
    \E args \in CatFileFlags, hash \in CatHashes : CatFile(args, hash, FALSE)

NextCat == NextPlant \/ NextCatCrafted

\* cat-file reads of crafted objects
SpecCat == Init /\ [][NextCat]_vars

NextWriteIndex ==
    \E files \in FileLists : \E t \in Times :
        WriteGitIndex(files, [k \in 1..Len(files) |-> [t EXCEPT !.nanos = (t.nanos + k - 1) % 1000000000]])

NextPlantIndex == \E bytes \in CraftedIndexes : PlantIndex(bytes)

NextWriteDamaged ==
    \E files \in DamagedFileLists : \E t \in {x \in Times : x.nanos # 0} :
        WriteGitIndex(files, [k \in 1..Len(files) |-> [t EXCEPT !.nanos = (t.nanos + k - 1) % 1000000000]])

NextCutIndex == \E n \in CutPoints(Len(indexFile.bytes)) : CutIndex(n)

NextScribble == \E checksum \in Checksums : ScribbleChecksum(checksum)

NextIndex == NextWriteIndex \/ ReadGitIndex \/ NextPlantIndex

\* writes and reads of the index file
SpecIndex == Init /\ [][NextIndex]_vars

NextIndexDamaged == NextWriteDamaged \/ ReadGitIndex \/ NextCutIndex \/ NextScribble

\* reads of index files whose write stopped early or whose end was overwritten
SpecIndexDamaged == Init /\ [][NextIndexDamaged]_vars

NextUpdateRef == \E i \in 1..Len(RefNames) : UpdateRef(i)

NextWriteHead == \E content \in HeadContents : WriteHead(content)

NextShowRef == \E args \in ArgSets : ShowRef(args)

NextRefs == NextUpdateRef \/ NextWriteHead \/ NextShowRef

\* show-ref over the ref files and HEAD of a repository
SpecRefs == Init /\ [][NextRefs]_vars

NextBlobBegin == \E p \in Procs, blob \in RaceBlobs : BlobBegin(p, blob)

NextBlobMkdir == \E p \in Procs : BlobMkdir(p)

NextBlobMkdirParent == \E p \in Procs : BlobMkdirParent(p)

NextBlobCreate == \E p \in Procs : BlobCreate(p)

NextBlobWrite == \E p \in Procs : BlobWrite(p)

NextBlobRace ==
    NextBlobBegin \/ NextBlobMkdir \/ NextBlobMkdirParent \/ NextBlobCreate \/ NextBlobWrite

NextWriteAnyHead == \E content \in HeadContents \cup BareHeadContents : WriteHead(content)

NextShowHead ==
    \E heads \in BOOLEAN, tags \in BOOLEAN : ShowRef(ShowRefArgs(TRUE, heads, tags, <<>>, 40))

NextHead == NextUpdateRef \/ NextWriteAnyHead \/ NextShowHead

\* show-ref --head over HEAD files with and without a trailing newline
SpecHead == Init /\ [][NextHead]_vars

\* two processes writing objects of one directory, step by step
SpecBlobRace == Init /\ [][NextBlobRace]_vars

NextIndexBegin ==
    \E p \in Procs, files \in RaceFileLists : \E t \in {x \in Times : x.nanos # 0} :
        IndexBegin(p, files, [k \in 1..Len(files) |-> [t EXCEPT !.nanos = (t.nanos + k - 1) % 1000000000]])

NextIndexCreate == \E p \in Procs : IndexCreate(p)

NextIndexWriteHeader == \E p \in Procs : IndexWriteHeader(p)

NextIndexWriteEntry == \E p \in Procs : IndexWriteEntry(p)

NextIndexChecksum == \E p \in Procs : IndexChecksum(p)

NextIndexWriteChecksum == \E p \in Procs : IndexWriteChecksum(p)

NextIndexRace ==
    \/ NextIndexBegin
    \/ NextIndexCreate
    \/ NextIndexWriteHeader
    \/ NextIndexWriteEntry
    \/ NextIndexChecksum
    \/ NextIndexWriteChecksum

\* two processes writing the index file, step by step
SpecIndexRace == Init /\ [][NextIndexRace]_vars

-----------------------------------------------------------------------------
(* What the specification says of an object, written from its words:       *)
(* the bytes "<type> <size>\0<content>", their digest in lowercase hex,    *)
(* the two-level path, and the parts of a stored object's bytes.           *)

SpecObject(object_type, content) ==
    TypeToken(object_type) \o <<32>> \o FmtDecimal(Len(content)) \o <<0>> \o content

SpecHash(object_type, content) == encode_in_place(Sha1(SpecObject(object_type, content)))

SpecHashTable == [t \in ObjectTypes, c \in Contents |-> SpecHash(t, c)] @@ <<>>

SpecLocate(hash) == <<SubSeq(hash, 1, 2), SubSeq(hash, 3, Len(hash))>>

IsLowerHex(s) == \A i \in 1..Len(s) : s[i] \in (48..57) \cup (97..102)

\* the files hold the complete object of (type, content) at the path of its hash
SpecStoredIn(files, object_type, content) ==
    LET path == SpecLocate(SpecHashTable[object_type, content])
    IN  /\ path \in DOMAIN files
        /\ files[path] = Compressed(SpecObject(object_type, content))

SpecStored(object_type, content) == SpecStoredIn(objFiles, object_type, content)

\* the decompressed bytes of the object file at the path of hash
SpecRaw(hash) == Decoded(objFiles[SpecLocate(hash)]).data

SpecFramed(raw) == FirstIndex(raw, 1, 32) > 0 /\ FirstIndex(raw, 1, 0) > FirstIndex(raw, 1, 32)

SpecToken(raw) == SubSeq(raw, 1, FirstIndex(raw, 1, 32) - 1)

SpecSizeField(raw) == SubSeq(raw, FirstIndex(raw, 1, 32) + 1, FirstIndex(raw, 1, 0) - 1)

SpecContent(raw) == SubSeq(raw, FirstIndex(raw, 1, 0) + 1, Len(raw))

SpecKnownTokens == {TypeToken(t) : t \in ObjectTypes}

-----------------------------------------------------------------------------
\* C1: every successful hash-object call prints the 40-character lowercase
\* hex SHA-1 of "<type> <len>\0" followed by the content; the printed hash is
\* a function of (type, content) alone, so repeated calls agree and the write
\* flag does not change it.
C1_HashDeterminism ==
    (res.op = "hash-object" /\ res.status = "ok") =>
        LET hash == SubSeq(res.out, 1, Len(res.out) - 1)
        IN  /\ res.out = SpecHash(res.object_type, res.file.content) \o <<10>>
            /\ Len(hash) = 40
            /\ IsLowerHex(hash)

C1_Witness ==
    /\ res.op = "hash-object"
    /\ res.status = "ok"
    /\ res.write
    /\ res.again
    /\ res.object_type = "tag"
    /\ res.file.content = <<97>>

\* C2 as claimed: for every type and content, reading the object a write
\* stored yields the type (-t) and the content (-p).
C2_Original ==
    \A t \in ObjectTypes, c \in Contents :
        (res.op = "cat-file" /\ res.hash = SpecHashTable[t, c] /\ SpecStored(t, c)) =>
            /\ res.args.flag = "t" => (res.status = "ok" /\ res.out = TypeToken(t))
            /\ res.args.flag = "p" => (res.status = "ok" /\ res.out = c)

\* C2 as amended: for every type and content, reading the object a write
\* stored yields the type (-t) and the size (-s); for the types blob, commit
\* and tag the content read (-p) yields the content and the existence check
\* (-e) succeeds.  The content of a tree is not returned as written.
C2_RoundTrip ==
    \A t \in ObjectTypes, c \in Contents :
        (res.op = "cat-file" /\ res.hash = SpecHashTable[t, c] /\ SpecStored(t, c)) =>
            /\ res.args.flag = "t" => (res.status = "ok" /\ res.out = TypeToken(t))
            /\ res.args.flag = "s" => (res.status = "ok" /\ res.out = FmtDecimal(Len(c)))
            /\ (res.args.flag = "p" /\ t # "tree") => (res.status = "ok" /\ res.out = c)
            /\ (res.args.flag = "e" /\ t # "tree") => (res.status = "ok" /\ res.out = <<>>)

C2_Witness ==
    /\ res.op = "cat-file"
    /\ res.args.flag = "p"
    /\ res.hash = SpecHashTable["commit", <<97>>]
    /\ SpecStored("commit", <<97>>)
    /\ res.status = "ok"
    /\ res.out = <<97>>

\* C3: a write of the (type, content) the previous call wrote, the file
\* system not failing, succeeds, prints the same hash and leaves the store
\* as it was, the complete compressed object at the path of the hash.
C3_Idempotent ==
    [][(/\ res.op = "hash-object" /\ res.write /\ res.status = "ok"
        /\ res'.op = "hash-object" /\ res'.write /\ res'.fault = "none"
        /\ res'.file = res.file /\ res'.object_type = res.object_type)
       => /\ res'.status = "ok"
          /\ res'.out = res.out
          /\ objFiles' = objFiles
          /\ objDirs' = objDirs
          /\ objectsDirExists' = objectsDirExists
          /\ SpecStoredIn(objFiles', res.object_type, res.file.content)]_vars

C3_Witness ==
    /\ res.op = "hash-object"
    /\ res.write
    /\ res.again
    /\ res.status = "ok"
    /\ SpecStored(res.object_type, res.file.content)

\* C8: a write that returns an error has created no object file at the path
\* of the hash, and a write that succeeds leaves the complete compressed
\* bytes there.
C8_AllOrNothing ==
    [][(res'.op = "hash-object" /\ res'.write /\ res'.file.exists) =>
        LET path == SpecLocate(SpecHashTable[res'.object_type, res'.file.content])
        IN  /\ (res'.status # "ok" /\ path \notin DOMAIN objFiles) => path \notin DOMAIN objFiles'
            /\ res'.status = "ok" => SpecStoredIn(objFiles', res'.object_type, res'.file.content)]_vars

-----------------------------------------------------------------------------
\* C4: the content read (-p) and the existence check (-e) of a stored object
\* whose header declares a size other than the number of bytes after the
\* header fail and write nothing; they fail with an error value when the
\* object is not a tree or its entries are whole.
C4_SizeMismatch ==
    (/\ res.op = "cat-file"
     /\ res.args.flag \in {"p", "e"}
     /\ SpecLocate(res.hash) \in DOMAIN objFiles) =>
        LET raw == SpecRaw(res.hash)
        IN  (/\ SpecFramed(raw)
             /\ SpecSizeField(raw) # <<>>
             /\ IsDigits(SpecSizeField(raw))
             /\ DigitsValue(SpecSizeField(raw)) # Len(SpecContent(raw))) =>
                /\ res.status # "ok"
                /\ res.out = <<>>
                /\ (SpecToken(raw) # TypeToken("tree") \/ SpecContent(raw) \in TreeContents)
                       => res.status = "err"

C4_Witness ==
    /\ res.op = "cat-file"
    /\ res.args.flag = "e"
    /\ res.hash = FmtLowerHex(TreeName)
    /\ SpecLocate(res.hash) \in DOMAIN objFiles
    /\ SpecToken(SpecRaw(res.hash)) = TypeToken("tree")
    /\ SpecContent(SpecRaw(res.hash)) \in TreeContents \ {<<>>}
    /\ DigitsValue(SpecSizeField(SpecRaw(res.hash))) = Len(SpecContent(SpecRaw(res.hash))) + 1
    /\ SpecLocate(FmtLowerHex(LeafName1)) \in DOMAIN objFiles
    /\ SpecToken(SpecRaw(FmtLowerHex(LeafName1))) = TypeToken("blob")
    /\ SpecLocate(FmtLowerHex(LeafName2)) \in DOMAIN objFiles
    /\ res.status = "err"

\* C5: for a stored object whose type token is none of blob, tree, commit,
\* tag: the type read and the size read fail without --allow-unknown-type;
\* with it the type read returns the token and the size read the declared
\* size; the content read and the existence check fail.
C5_UnknownType ==
    (res.op = "cat-file" /\ SpecLocate(res.hash) \in DOMAIN objFiles) =>
        LET raw == SpecRaw(res.hash)
        IN  (SpecFramed(raw) /\ SpecToken(raw) \notin SpecKnownTokens) =>
                /\ (res.args.flag \in {"t", "s"} /\ ~res.args.allow_unknown_type)
                       => (res.status = "err" /\ res.out = <<>>)
                /\ (res.args.flag = "t" /\ res.args.allow_unknown_type)
                       => (res.status = "ok" /\ res.out = SpecToken(raw))
                /\ (res.args.flag = "s" /\ res.args.allow_unknown_type)
                       => (res.status = "ok" /\ res.out = SpecSizeField(raw))
                /\ res.args.flag \in {"p", "e"} => (res.status = "err" /\ res.out = <<>>)

C5_Witness ==
    /\ res.op = "cat-file"
    /\ res.args.flag = "t"
    /\ res.args.allow_unknown_type
    /\ res.status = "ok"
    /\ res.out = UnknownToken

\* the line of one tree entry and the lines of a list of entries
SpecTreeLine(e) ==
    e.mode \o <<32>> \o SpecToken(SpecRaw(FmtLowerHex(e.hash))) \o <<32>>
        \o FmtLowerHex(e.hash) \o <<9>> \o e.name

RECURSIVE SpecTreeLines(_)
SpecTreeLines(es) ==
    IF es = <<>> THEN <<>>
    ELSE IF Len(es) = 1 THEN SpecTreeLine(es[1])
    ELSE SpecTreeLine(es[1]) \o <<10>> \o SpecTreeLines(Tail(es))

\* every entry of the list names a stored object of a known type
SpecResolvable(es) ==
    \A i \in 1..Len(es) :
        /\ SpecLocate(FmtLowerHex(es[i].hash)) \in DOMAIN objFiles
        /\ SpecFramed(SpecRaw(FmtLowerHex(es[i].hash)))
        /\ SpecToken(SpecRaw(FmtLowerHex(es[i].hash))) \in SpecKnownTokens

\* C6: the content read of a tree object "tree <size>\0" followed by n >= 0
\* whole records, every one naming a stored object of a known type, prints
\* the n lines "<mode> <type> <hex>\t<name>" in the order of the records,
\* joined by one \n and with no trailing newline.
C6_TreePretty ==
    \A es \in TreeEntryLists :
        (/\ res.op = "cat-file"
         /\ res.args.flag = "p"
         /\ SpecLocate(res.hash) \in DOMAIN objFiles
         /\ SpecRaw(res.hash) = SpecObject("tree", TreeContent(es))
         /\ SpecResolvable(es)) =>
            /\ res.status = "ok"
            /\ res.out = SpecTreeLines(es)

C6_Witness ==
    /\ res.op = "cat-file"
    /\ res.args.flag = "p"
    /\ res.hash = FmtLowerHex(TreeName)
    /\ res.status = "ok"
    /\ Cardinality({i \in 1..Len(res.out) : res.out[i] = 10}) = 1
    /\ Cardinality({i \in 1..Len(res.out) : res.out[i] = 9}) = 2

\* C7: the path of a hash is <objects>/<first 2 characters>/<the rest>;
\* with existence verification it is an error when nothing is at that path or
\* the objects directory is absent; every cat-file read of a hash with no
\* object file fails and writes nothing.
C7_Locate ==
    \A hash \in CatHashes :
        /\ gitDirExists =>
               get_object_path(hash, FALSE) = [status |-> "ok", path |-> SpecLocate(hash)]
        /\ get_object_path(hash, TRUE).status = "ok" =>
               get_object_path(hash, TRUE).path = SpecLocate(hash)
        /\ (\/ ~objectsDirExists
            \/ /\ SpecLocate(hash) \notin DOMAIN objFiles
               /\ ~(SpecLocate(hash)[2] = <<>> /\ SpecLocate(hash)[1] \in objDirs))
               => get_object_path(hash, TRUE).status = "err"
        /\ (res.op = "cat-file" /\ res.hash = hash /\ SpecLocate(hash) \notin DOMAIN objFiles)
               => (res.status = "err" /\ res.out = <<>>)

C7_Witness ==
    /\ res.op = "cat-file"
    /\ res.hash = AbsentHash
    /\ objectsDirExists
    /\ SpecLocate(FmtLowerHex(TreeName)) \in DOMAIN objFiles
    /\ res.status = "err"

-----------------------------------------------------------------------------
\* C9: reading the index file that a write of a list of entries left yields
\* a list of the same length and order whose entries equal the written ones
\* in every field: ctime and mtime seconds and nanoseconds, device, inode,
\* mode, uid, gid, size, hash, assume-valid flag, merge stage and path.
C9_IndexRoundTrip ==
    [][(idx.op = "write" /\ idx.ok /\ idx'.op = "read") =>
        /\ idx'.ok
        /\ Len(idx'.entries) = Len(idx.entries)
        /\ \A k \in 1..Len(idx.entries) : idx'.entries[k] = idx.entries[k]]_vars

C9_Witness ==
    /\ idx.op = "read"
    /\ idx.ok
    /\ Len(idx.entries) = MaxEntries
    /\ idx.entries[1].path # idx.entries[2].path
    /\ idx.entries[1].size # idx.entries[2].size
    /\ idx.entries[1].ctime_nanos = 999999999
    /\ indexFile.bytes = index_body(idx.entries) \o Sha1(index_body(idx.entries))

\* C10: for every path length the bytes written for one entry are a multiple
\* of 8; the padding depends on the length of the path of that entry alone
\* and is between 1 and 8 bytes; the reader, having read the path, skips as
\* many bytes as the writer padded, ending where the written entry ends.
C10_EntryAlignment ==
    /\ \A n \in 0..MaxPathLen :
           /\ calc_null_padding(n) \in 1..8
           /\ (62 + n + calc_null_padding(n)) % 8 = 0
    /\ (idx.op = "write" /\ idx.ok) =>
           \A k \in 1..Len(idx.entries) :
               LET e == idx.entries[k]
                   bytes == write_entry(e)
                   padding == Len(bytes) - 62 - Len(e.path)
               IN  /\ Len(bytes) % 8 = 0
                   /\ padding \in 1..8
                   /\ padding = calc_null_padding(Len(e.path))
                   /\ \A j \in 1..padding : bytes[62 + Len(e.path) + j] = 0
                   /\ read_entry(bytes, 0).ok
                   /\ read_entry(bytes, 0).pos = Len(bytes)
                   /\ read_entry(bytes, 0).pos - 62 - Len(read_entry(bytes, 0).entry.path) = padding

C10_Witness ==
    /\ idx.op = "write"
    /\ idx.ok
    /\ Len(idx.entries) = 1
    /\ Len(idx.entries[1].path) = 2
    /\ Len(write_entry(idx.entries[1])) = 72

-----------------------------------------------------------------------------
(* The flags field and the header of the index file, from the words of the  *)
(* specification.                                                           *)

SpecStages == <<"Unmerged", "Base", "Ours", "Theirs">>

\* the bytes one entry with a path of path_len bytes takes in the file
SpecEntrySize(path_len) == ((62 + path_len) \div 8 + 1) * 8

\* the offset of entry k of the file, the entries before it being es
RECURSIVE SpecEntryOffset(_, _)
SpecEntryOffset(es, k) ==
    IF k = 1 THEN 12 ELSE SpecEntryOffset(es, k - 1) + SpecEntrySize(Len(es[k - 1].path))

\* the 16-bit flags value of entry k of the index file
SpecFlagsValue(bytes, es, k) ==
    bytes[SpecEntryOffset(es, k) + 59] * 256 + bytes[SpecEntryOffset(es, k) + 60]

\* an entry holds what the given bits of its flags value say:
\* assume-valid at avBit, the stage above stageDiv, the length below lenMod
SpecFlagsDecoded(entry, value, stageDiv, lenMod) ==
    /\ entry.assume_valid = ((value \div 32768) % 2 = 1)
    /\ entry.stage = SpecStages[((value \div stageDiv) % 4) + 1]
    /\ Len(entry.path) = value % lenMod

SpecReadDone == idx.op = "read" /\ idx.ok
SpecWriteDone == idx.op = "write" /\ idx.ok

\* C11 as stated: bit 15 is assume-valid, bits 14-13 the stage, bits 12-0 the
\* path length, for every entry a read returns and every entry a write stores
C11_Original ==
    /\ SpecReadDone => \A k \in 1..Len(idx.entries) :
            SpecFlagsDecoded(idx.entries[k], SpecFlagsValue(indexFile.bytes, idx.entries, k), 8192, 8192)
    /\ SpecWriteDone => \A k \in 1..Len(idx.entries) :
            SpecFlagsValue(indexFile.bytes, idx.entries, k) % 8192 = Len(idx.entries[k].path)

\* C11 amended: bit 15 is assume-valid, bits 13-12 are the stage, bits 11-0
\* are the path length and bit 14 is not read; every entry a read returns
\* holds exactly what those bits say, and a write stores the path length in
\* bits 11-0 and zero in bits 15-12
C11_FlagsLayout ==
    /\ SpecReadDone => \A k \in 1..Len(idx.entries) :
            SpecFlagsDecoded(idx.entries[k], SpecFlagsValue(indexFile.bytes, idx.entries, k), 4096, 4096)
    /\ SpecWriteDone => \A k \in 1..Len(idx.entries) :
            SpecFlagsValue(indexFile.bytes, idx.entries, k) = Len(idx.entries[k].path)

\* a read of an entry whose flags have all of bits 15-12 and bit 8 set
C11_Witness ==
    /\ SpecReadDone
    /\ Len(idx.entries) = 1
    /\ SpecFlagsValue(indexFile.bytes, idx.entries, 1) = 241 * 256 + 9
    /\ idx.entries[1].stage = "Theirs"
    /\ Len(idx.entries[1].path) = 265

\* C12: a read of an index file whose first four bytes are not "DIRC" or
\* whose version is not 2 fails and returns no entries, whatever follows;
\* when both are wrong the failure is the one of the signature
C12_HeaderValidation ==
    (idx.op = "read" /\ indexFile.exists /\ gitDirExists) =>
        LET b == indexFile.bytes
            badSig == Len(b) < 4 \/ SubSeq(b, 1, 4) # <<68, 73, 82, 67>>
            badVer == Len(b) < 8 \/ SubSeq(b, 5, 8) # <<0, 0, 0, 2>>
        IN  /\ (badSig \/ badVer) => ~idx.ok /\ idx.entries = <<>>
            /\ (Len(b) >= 12 /\ badSig) => idx.error = "invalid index file signature"
            /\ (Len(b) >= 12 /\ ~badSig /\ badVer) => idx.error = "unsupported index version"

\* a read of a file with a wrong signature, a wrong version and an otherwise
\* well-formed entry
C12_Witness ==
    /\ idx.op = "read"
    /\ ~idx.ok
    /\ Len(indexFile.bytes) > 32
    /\ SubSeq(indexFile.bytes, 1, 4) = <<68, 73, 82, 88>>
    /\ SubSeq(indexFile.bytes, 5, 8) = <<0, 0, 0, 3>>

-----------------------------------------------------------------------------
(* What the specification says of show-ref, written from its words: the    *)
(* output is split at newlines, a line "<hash> <path>" at its space.       *)

RECURSIVE SpecSplit(_, _)
SpecSplit(bytes, sep) ==
    IF bytes = <<>> THEN <<>>
    ELSE IF FirstIndex(bytes, 1, sep) = 0 THEN <<bytes>>
    ELSE <<SubSeq(bytes, 1, FirstIndex(bytes, 1, sep) - 1)>>
             \o SpecSplit(SubSeq(bytes, FirstIndex(bytes, 1, sep) + 1, Len(bytes)), sep)

SpecLines == SpecSplit(shown.out, 10)

SpecLineHash(l) == IF FirstIndex(l, 1, 32) = 0 THEN l ELSE SubSeq(l, 1, FirstIndex(l, 1, 32) - 1)
SpecLinePath(l) == SubSeq(l, FirstIndex(l, 1, 32) + 1, Len(l))

\* a before b, character by character
RECURSIVE SpecStringLess(_, _)
SpecStringLess(a, b) ==
    IF b = <<>> THEN FALSE
    ELSE IF a = <<>> THEN TRUE
    ELSE IF a[1] # b[1] THEN a[1] < b[1]
    ELSE SpecStringLess(Tail(a), Tail(b))

\* the slash-separated string of a path
RECURSIVE SpecPathString(_)
SpecPathString(path) ==
    IF Len(path) = 1 THEN path[1] ELSE path[1] \o <<47>> \o SpecPathString(Tail(path))

SpecShowDone == shown.op = "show-ref" /\ shown.status = "ok"
SpecWithPaths == SpecShowDone /\ shown.args.hash = <<>>

\* C13: the lines of a show-ref are in ascending order of the path strings,
\* compared character by character, and no path appears twice
C13_RefOrdering ==
    SpecWithPaths =>
        \A k \in 1..(Len(SpecLines) - 1) :
            SpecStringLess(SpecLinePath(SpecLines[k]), SpecLinePath(SpecLines[k + 1]))

SpecStartsWith(s, prefix) == Len(s) >= Len(prefix) /\ SubSeq(s, 1, Len(prefix)) = prefix

\* "refs/heads/", "refs/tags/", "refs/remotes/", "refs/stash" and "HEAD"
SpecHeadsDir == <<114, 101, 102, 115, 47, 104, 101, 97, 100, 115, 47>>
SpecTagsDir == <<114, 101, 102, 115, 47, 116, 97, 103, 115, 47>>
SpecRemotesDir == <<114, 101, 102, 115, 47, 114, 101, 109, 111, 116, 101, 115, 47>>
SpecStashName == <<114, 101, 102, 115, 47, 115, 116, 97, 115, 104>>
SpecHeadName == <<72, 69, 65, 68>>

\* the names of the ref files of the repository
SpecRefStrings == {SpecPathString(p) : p \in DOMAIN refFiles}

SpecUnderDir(dir) == {n \in SpecRefStrings : SpecStartsWith(n, dir)}

\* the names the flags select
SpecSelection(args) ==
    (IF args.heads THEN SpecUnderDir(SpecHeadsDir) ELSE {})
        \cup (IF args.tags THEN SpecUnderDir(SpecTagsDir) ELSE {})
        \cup (IF ~args.heads /\ ~args.tags
              THEN SpecUnderDir(SpecHeadsDir) \cup SpecUnderDir(SpecTagsDir)
                     \cup SpecUnderDir(SpecRemotesDir) \cup (SpecRefStrings \cap {SpecStashName})
              ELSE {})
        \cup (IF args.head THEN {SpecHeadName} ELSE {})

\* the paths of the lines of the output
SpecShownPaths == {SpecLinePath(SpecLines[k]) : k \in 1..Len(SpecLines)}

\* C14: a show-ref that succeeds returns exactly the refs its flags select:
\* those under refs/heads with --heads, those under refs/tags with --tags,
\* both with both, and with neither those under refs/heads, refs/tags and
\* refs/remotes plus refs/stash when it exists; HEAD is added exactly when
\* --head is given
C14_RefSelection ==
    SpecWithPaths =>
        /\ SpecShownPaths = SpecSelection(shown.args)
        /\ Len(SpecLines) = Cardinality(SpecSelection(shown.args))

\* show-ref --heads in a repository with a branch, a tag and a stash
C14_Witness ==
    /\ SpecWithPaths
    /\ shown.args.heads /\ ~shown.args.tags /\ ~shown.args.head
    /\ SpecUnderDir(SpecHeadsDir) # {}
    /\ SpecUnderDir(SpecTagsDir) # {}
    /\ SpecStashName \in SpecRefStrings
    /\ Len(SpecLines) = 1

\* the name HEAD points at: the HEAD file without "ref: " and the newline
SpecHeadTargetName == SubSeq(headFile, 6, Len(headFile) - 1)

\* the ref files with that name that hold a 40-byte hash
SpecHeadTargets ==
    {p \in DOMAIN refFiles : SpecPathString(p) = SpecHeadTargetName /\ Len(refFiles[p]) >= 40}

\* every ref file the flags select holds a 40-byte hash
SpecWellFormed(args) ==
    \A p \in DOMAIN refFiles : SpecPathString(p) \in SpecSelection(args) => Len(refFiles[p]) >= 40

SpecMax(a, b) == IF a > b THEN a ELSE b

\* the number of hash characters a call shows
SpecShownLen(args) ==
    IF args.hash # <<>> THEN SpecMax(4, Min(40, args.hash[1])) ELSE SpecMax(4, Min(40, args.abbrev))

\* C15: a show-ref --head whose HEAD points at an existing ref file, the ref
\* files it selects being well-formed, succeeds; its first line is the
\* entry of HEAD and shows the hash of the target file, whether the flags
\* select the target or not
C15_HeadResolution ==
    (shown.op = "show-ref" /\ shown.args.head /\ SpecHeadTargets # {} /\ SpecWellFormed(shown.args)) =>
        /\ shown.status = "ok"
        /\ Len(SpecLines) >= 1
        /\ \A p \in SpecHeadTargets :
               SpecLineHash(SpecLines[1]) = SubSeq(refFiles[p], 1, SpecShownLen(shown.args))
        /\ shown.args.hash = <<>> =>
               /\ SpecLinePath(SpecLines[1]) = SpecHeadName
               /\ \A k \in 2..Len(SpecLines) : SpecLinePath(SpecLines[k]) # SpecHeadName

\* show-ref --head --heads with HEAD on a tag: the target is not collected
C15_Witness ==
    /\ SpecShowDone
    /\ shown.args.head /\ shown.args.heads /\ ~shown.args.tags
    /\ SpecStartsWith(SpecHeadTargetName, SpecTagsDir)
    /\ SpecHeadTargets # {}
    /\ SpecUnderDir(SpecHeadsDir) # {}
    /\ Len(SpecLines) >= 2

\* the ref file HEAD names does not exist
SpecDangling == \A p \in DOMAIN refFiles : SpecPathString(p) # SpecHeadTargetName

\* C16: with HEAD pointing at a ref file that does not exist, a show-ref
\* --head fails and writes nothing; a show-ref without --head succeeds when
\* the ref files it selects are well-formed, and what it returns is what it
\* returns for every other content of the HEAD file
C16_DanglingHead ==
    (shown.op = "show-ref" /\ gitDirExists /\ SpecDangling) =>
        IF shown.args.head
        THEN shown.status = "error" /\ shown.out = <<>>
        ELSE /\ SpecWellFormed(shown.args) => shown.status = "ok"
             /\ \A content \in HeadContents \cup {<<>>} : run(shown.args, refFiles, content) = shown

\* show-ref --head with HEAD on a branch that was never written, in a
\* repository that has other refs
C16_Witness ==
    /\ shown.op = "show-ref"
    /\ shown.args.head
    /\ SpecDangling
    /\ DOMAIN refFiles # {}
    /\ SpecWellFormed(shown.args)
    /\ shown.status = "error"

\* the 40-character hashes the ref files hold
SpecStoredHash(p) == SubSeq(refFiles[p], 1, 40)
SpecStoredHashes == {SpecStoredHash(p) : p \in {q \in DOMAIN refFiles : Len(refFiles[q]) >= 40}}

\* the hashes stored for the path of a line: those of the file of that name,
\* for HEAD those of its target, and any stored hash for a line without path
SpecHashesOf(l) ==
    IF FirstIndex(l, 1, 32) = 0 THEN SpecStoredHashes
    ELSE IF SpecLinePath(l) = SpecHeadName THEN {SpecStoredHash(p) : p \in SpecHeadTargets}
    ELSE {SpecStoredHash(p) : p \in {q \in DOMAIN refFiles : SpecPathString(q) = SpecLinePath(l)}}

\* C17: whatever numbers --abbrev and --hash are given, the call does not
\* fail because of them, and every line shows max(4, min(40, n)) characters,
\* which are the first characters of the stored hash
C17_AbbrevClamp ==
    (shown.op = "show-ref" /\ gitDirExists) =>
        /\ (SpecWellFormed(shown.args) /\ (shown.args.head => SpecHeadTargets # {}))
               => shown.status = "ok"
        /\ shown.status = "ok" =>
               \A k \in 1..Len(SpecLines) :
                   /\ Len(SpecLineHash(SpecLines[k])) = SpecShownLen(shown.args)
                   /\ \E h \in SpecHashesOf(SpecLines[k]) :
                          SpecLineHash(SpecLines[k]) = SubSeq(h, 1, SpecShownLen(shown.args))

\* show-ref --head --abbrev=0 that showed four characters of two hashes
C17_Witness ==
    /\ SpecWithPaths
    /\ shown.args.abbrev = 0
    /\ Len(SpecLines) >= 2
    /\ Len(SpecLineHash(SpecLines[2])) = 4

\* the lines of the same call without a hash-only limit and with full hashes
SpecFullLines(args) ==
    SpecSplit(run([args EXCEPT !.hash = <<>>, !.abbrev = 40], refFiles, headFile).out, 10)

\* line k of a hash-only output is the start of the hash of line k of the
\* output with paths
SpecSameOrder(ls, full) ==
    /\ Len(ls) = Len(full)
    /\ \A k \in 1..Len(ls) : ls[k] = SubSeq(SpecLineHash(full[k]), 1, Len(ls[k]))

\* C18: with a hash-only limit every line is the hash cut at the clamped
\* limit, without space and path, whatever --abbrev is; without it every
\* line is the hash cut at the clamped --abbrev, a space and the path; the
\* lines are as many and in the same order in both modes
C18_HashOnly ==
    SpecShowDone =>
        IF shown.args.hash # <<>>
        THEN /\ \A k \in 1..Len(SpecLines) :
                    /\ FirstIndex(SpecLines[k], 1, 32) = 0
                    /\ Len(SpecLines[k]) = SpecMax(4, Min(40, shown.args.hash[1]))
             /\ SpecSameOrder(SpecLines, SpecFullLines(shown.args))
        ELSE /\ \A k \in 1..Len(SpecLines) :
                    /\ FirstIndex(SpecLines[k], 1, 32) = SpecMax(4, Min(40, shown.args.abbrev)) + 1
                    /\ SpecLinePath(SpecLines[k]) \in SpecSelection(shown.args)
             /\ SpecSameOrder([k \in 1..Len(SpecLines) |-> SpecLineHash(SpecLines[k])],
                              SpecFullLines(shown.args))

\* show-ref --head --hash=5 --abbrev=40 that showed two lines of five characters
C18_Witness ==
    /\ SpecShowDone
    /\ shown.args.hash = <<5>>
    /\ shown.args.abbrev = 40
    /\ Len(SpecLines) = 2
    /\ Len(SpecLines[1]) = 5

\* C19: a show-ref fails only because a ref file it selects is malformed or
\* because the HEAD it was asked for does not resolve, never because
\* refs/heads, refs/tags, refs/remotes or refs/stash is absent; an absent
\* source adds no line, and when the flags select no ref the call succeeds
\* with empty output
C19_MissingSources ==
    (shown.op = "show-ref" /\ gitDirExists) =>
        /\ shown.status = "error" =>
               ~SpecWellFormed(shown.args) \/ (shown.args.head /\ SpecHeadTargets = {})
        /\ shown.status = "ok" => Len(SpecLines) = Cardinality(SpecSelection(shown.args))
        /\ SpecSelection(shown.args) = {} => shown.status = "ok" /\ shown.out = <<>>

\* show-ref --tags in a repository that has refs but no refs/tags
C19_Witness ==
    /\ SpecShowDone
    /\ shown.args.tags /\ ~shown.args.heads /\ ~shown.args.head
    /\ DOMAIN refFiles # {}
    /\ SpecUnderDir(SpecTagsDir) = {}
    /\ shown.out = <<>>

-----------------------------------------------------------------------------
\* the object file read by the last cat-file holds a well-formed header whose
\* declared size is not the number of bytes after the header
SpecSizeDiffers ==
    /\ res.op = "cat-file"
    /\ SpecLocate(res.hash) \in DOMAIN objFiles
    /\ SpecFramed(SpecRaw(res.hash))
    /\ SpecSizeField(SpecRaw(res.hash)) # <<>>
    /\ IsDigits(SpecSizeField(SpecRaw(res.hash)))
    /\ DigitsValue(SpecSizeField(SpecRaw(res.hash))) # Len(SpecContent(SpecRaw(res.hash)))

\* C20 as stated: no read of any kind succeeds on an object whose declared
\* size differs from the number of bytes after the header
C20_Original == SpecSizeDiffers => res.status # "ok"

\* C20 amended: on such an object the content read and the existence check
\* never succeed; the type read and the size read look at the header only:
\* they succeed whenever the type token is accepted, and return the token and
\* the declared size
C20_DeclaredSize ==
    SpecSizeDiffers =>
        /\ res.args.flag \in {"p", "e"} => res.status # "ok"
        /\ (/\ res.args.flag \in {"t", "s"}
            /\ (res.args.allow_unknown_type \/ SpecToken(SpecRaw(res.hash)) \in SpecKnownTokens)) =>
                /\ res.status = "ok"
                /\ res.out = IF res.args.flag = "t" THEN SpecToken(SpecRaw(res.hash))
                             ELSE SpecSizeField(SpecRaw(res.hash))

\* cat-file -s of a blob of one byte whose header declares 0 bytes
C20_Witness ==
    /\ SpecSizeDiffers
    /\ res.args.flag = "s"
    /\ SpecToken(SpecRaw(res.hash)) = TypeToken("blob")
    /\ Len(SpecContent(SpecRaw(res.hash))) = 1
    /\ res.status = "ok"
    /\ res.out = <<48>>

-----------------------------------------------------------------------------
\* C21: the content read and the existence check of a tree object whose
\* content ends inside a record (in the mode, in the name, or in the hash)
\* fail with an error value and write nothing: the partial record is not
\* taken for the end of the tree, is not printed, and the process does not
\* abort
C21_TruncatedTree ==
    (/\ res.op = "cat-file"
     /\ res.args.flag \in {"p", "e"}
     /\ SpecLocate(res.hash) \in DOMAIN objFiles
     /\ SpecFramed(SpecRaw(res.hash))
     /\ SpecToken(SpecRaw(res.hash)) = TypeToken("tree")
     /\ SpecContent(SpecRaw(res.hash)) \in TruncatedTreeContents) =>
        /\ res.status = "err"
        /\ res.out = <<>>

-----------------------------------------------------------------------------
\* C22: a read of an index file that holds a proper prefix of the bytes of a
\* whole write fails and returns no entries, wherever the file ends
C22_TruncatedIndex ==
    (idx.op = "read" /\ indexFile.from = "cut") => ~idx.ok /\ idx.entries = <<>>

\* a read of a file that ends inside the trailing checksum, after two whole
\* entries
C22_Witness ==
    /\ idx.op = "read"
    /\ indexFile.from = "cut"
    /\ Len(indexFile.bytes) > 12
    /\ FromBE(SubSeq(indexFile.bytes, 9, 12)) = 2
    /\ idx.error = "read trailing checksum"

\* the bytes of the index file before its last 20
SpecIndexBody == SubSeq(indexFile.bytes, 1, Len(indexFile.bytes) - 20)
SpecIndexTrailer == SubSeq(indexFile.bytes, Len(indexFile.bytes) - 19, Len(indexFile.bytes))

\* C23: a read of an index file with a valid header and entries succeeds
\* whatever its last 20 bytes are, and returns the entries the bytes before
\* them encode
C23_ChecksumUnverified ==
    (idx.op = "read" /\ indexFile.from = "scribble") =>
        /\ idx.ok
        /\ index_body(idx.entries) = SpecIndexBody

\* a read that returned two entries from a file that ends with 20 zero
\* bytes, which are not the digest of what precedes them
C23_Witness ==
    /\ idx.op = "read"
    /\ indexFile.from = "scribble"
    /\ idx.ok
    /\ Len(idx.entries) = 2
    /\ SpecIndexTrailer = [k \in 1..20 |-> 0]
    /\ SpecIndexTrailer # Sha1(SpecIndexBody)

\* the entries have one path of 4096 bytes or more, the path of the first
SpecOverlong(entries) == Len(entries) = 1 /\ Len(entries[1].path) >= 4096

\* what C24 says of the write that led to idx' and of the read that follows
\* a write: the length modulo 4096 in the length field, all bytes of the path
\* and the padding of the full length in the file, and a read that does not
\* return the entry that was written
SpecLongWrite(i, f) ==
    /\ i.ok
    /\ SpecOverlong(i.entries)
    /\ SpecFlagsValue(f.bytes, i.entries, 1) = Len(i.entries[1].path) % 4096
    /\ SubSeq(f.bytes, 75, 74 + Len(i.entries[1].path)) = i.entries[1].path
    /\ Len(f.bytes) = 12 + SpecEntrySize(Len(i.entries[1].path)) + 20

SpecLongReadBack(i, j) ==
    (i.op = "write" /\ i.ok /\ SpecOverlong(i.entries) /\ j.op = "read") =>
        ~j.ok \/ j.entries # i.entries

\* the write was given a path of 4096 bytes or more
SpecGivenOverlong(i) ==
    i.op = "write" /\ gitDirExists /\ i.overlong

\* C24 as stated: every write of a path of 4096 bytes or more succeeds
C24_Original ==
    [][/\ SpecGivenOverlong(idx') => SpecLongWrite(idx', indexFile')
       /\ SpecLongReadBack(idx, idx')]_vars

\* C24 amended: a write of a path of 4096 bytes or more whose metadata and
\* content the system lets it read succeeds; the file holds the length
\* modulo 4096 in the 12-bit length field, all bytes of the path and the
\* padding of the full length; a read of that file does not return the
\* entry that was written
C24_LongPaths ==
    [][/\ (SpecGivenOverlong(idx') /\ idx'.error \notin {"read file metadata", "read file chunk"}) =>
              SpecLongWrite(idx', indexFile')
       /\ SpecLongReadBack(idx, idx')]_vars

\* a read of the file written for a path of 4101 bytes, which returned a
\* path of 5 bytes
C24_Witness ==
    /\ idx.op = "read"
    /\ idx.ok
    /\ indexFile.from = "write"
    /\ Len(indexFile.bytes) > 4096
    /\ Len(idx.entries) = 1
    /\ Len(idx.entries[1].path) = 5

\* no write_blob call of a process is under way
SpecBlobsReturned == \A p \in Procs : blobWriters[p].pc \in {"idle", "done"}

\* C25: in a repository no write_blob of two concurrent processes fails,
\* whatever directories the other process created in between; once both have
\* returned, the object file of each holds the whole compressed object
C25_DirectoryRace ==
    /\ \A p \in Procs : (gitDirExists /\ blobWriters[p].pc = "done") => blobWriters[p].status = "ok"
    /\ SpecBlobsReturned =>
          \A p \in Procs : blobWriters[p].status = "ok" =>
              /\ SubSeq(blobWriters[p].hash, 1, 2) \in objDirs
              /\ SpecLocate(blobWriters[p].hash) \in DOMAIN objFiles
              /\ objFiles[SpecLocate(blobWriters[p].hash)] = ZlibCompress(blobWriters[p].blob)

\* both processes returned from writes of different objects of one
\* directory; process 1 created both directories while process 2 found the
\* object store missing, then there, then the directory there
C25_Witness ==
    /\ \A p \in Procs : blobWriters[p].pc = "done" /\ blobWriters[p].status = "ok"
    /\ blobWriters[1].hash # blobWriters[2].hash
    /\ SubSeq(blobWriters[1].hash, 1, 2) = SubSeq(blobWriters[2].hash, 1, 2)
    /\ blobWriters[1].mkdirs = <<"NotFound", "Created", "Created">>
    /\ blobWriters[2].mkdirs = <<"NotFound", "Exists", "Exists">>

\* the index file of a whole write of the entries
SpecEncoding(entries) == index_body(entries) \o Sha1(index_body(entries))

\* C26: every index write of two concurrent processes reports success when
\* its inputs can be read, whatever the other process does to the file; the
\* file a write leaves is the encoding of its entries when no step of the
\* other process fell between its start and its return
C26_ConcurrentWriters ==
    [][\A p \in Procs :
          /\ (gitDirExists /\ indexWriters'[p].pc = "done" /\ indexWriters'[p].entries # <<>>) =>
                 indexWriters'[p].status = "ok"
          /\ (indexWriters[p].pc = "trailer" /\ indexWriters'[p].pc = "done"
                  /\ ~indexWriters[p].overlap) =>
                 indexFile'.bytes = SpecEncoding(indexWriters[p].entries)]_vars

\* both processes reported success, and the index file is the encoding of
\* the entries of neither: a read of it fails or returns other entries
C26_Witness ==
    /\ \A p \in Procs :
          /\ indexWriters[p].pc = "done"
          /\ indexWriters[p].status = "ok"
          /\ indexFile.bytes # SpecEncoding(indexWriters[p].entries)
          /\ \/ ~decode_index(indexFile.bytes).ok
             \/ index_body(decode_index(indexFile.bytes).entries) # index_body(indexWriters[p].entries)
    /\ indexWriters[1].entries # indexWriters[2].entries

\* the ref path of a HEAD file: what follows "ref: ", without one trailing
\* newline when there is one
SpecRefPathOf(head) ==
    IF Len(head) > 5 /\ head[Len(head)] = NL THEN SubSeq(head, 6, Len(head) - 1)
    ELSE SubSeq(head, 6, Len(head))

\* the ref files of that path that hold a 40-byte hash
SpecRefPathTargets ==
    {p \in DOMAIN refFiles : SpecPathString(p) = SpecRefPathOf(headFile) /\ Len(refFiles[p]) >= 40}

\* C27: a show-ref --head resolves HEAD to the ref file named after "ref: ",
\* one trailing newline removed if present: with or without the newline it
\* succeeds and its first line shows the hash of that file
C27_HeadNewline ==
    (shown.op = "show-ref" /\ shown.args.head /\ SpecRefPathTargets # {}
        /\ SpecWellFormed(shown.args)) =>
        /\ shown.status = "ok"
        /\ Len(SpecLines) >= 1
        /\ SpecLinePath(SpecLines[1]) = SpecHeadName
        /\ \A p \in SpecRefPathTargets : SpecLineHash(SpecLines[1]) = SubSeq(refFiles[p], 1, 40)

\* the object file at the path holds the whole compressed object of some
\* type and content whose hash names the path
SpecAddressed(files, path) ==
    \E t \in ObjectTypes, c \in Contents :
        /\ SpecLocate(SpecHashTable[t, c]) = path
        /\ files[path] = Compressed(SpecObject(t, c))

\* C28: after every hash-object call each object file is the compression of
\* "<type> <size>\0<content>" with the digest its path spells and the size of
\* its content, and the call has left the decompressed bytes of every object
\* file that was there as they were
C28_ContentAddressing ==
    [][res'.op = "hash-object" =>
          /\ \A path \in DOMAIN objFiles' : SpecAddressed(objFiles', path)
          /\ \A path \in DOMAIN objFiles :
                 /\ path \in DOMAIN objFiles'
                 /\ Decoded(objFiles'[path]) = Decoded(objFiles[path])]_vars

\* the metadata or the content of one of the files cannot be read, or there
\* is no repository
SpecInputError(files) ==
    \/ \E k \in 1..Len(files) : ~files[k].exists \/ ~files[k].readable
    \/ ~gitDirExists

\* what a write of the files returns and leaves, with the index file as it is
SpecWriteOf(files) ==
    write_git_index(files, [k \in 1..Len(files) |-> [secs |-> 1700000000, nanos |-> k]], indexFile)

\* C29: whatever the index file holds, an index write that cannot read the
\* metadata or the content of one of its files, or finds no repository,
\* returns an error and leaves the index file as it found it
C29_InputErrors ==
    \A files \in FileLists :
        SpecInputError(files) =>
            /\ ~SpecWriteOf(files).ok
            /\ SpecWriteOf(files).file = indexFile

\* a write that failed at the content of a directory, over the index file
\* an earlier write left
C29_Witness ==
    /\ idx.op = "write"
    /\ ~idx.ok
    /\ idx.error = "read file chunk"
    /\ gitDirExists
    /\ indexFile.exists
    /\ indexFile.from = "write"
    /\ Len(indexFile.bytes) > 32

\* the directories and files of the object store are those before the step
SpecStoreUntouched ==
    /\ objectsDirExists' = objectsDirExists
    /\ objDirs' = objDirs
    /\ objFiles' = objFiles

\* C30: a hash-object without the write flag on an existing file succeeds,
\* in a repository or outside one, prints the hash and leaves the object
\* store as it was; on a file that does not exist it fails, with or without
\* the write flag, prints nothing and leaves the store as it was
C30_ReadOnly ==
    [][res'.op = "hash-object" =>
          /\ (~res'.write /\ res'.file.exists) =>
                 /\ res'.status = "ok"
                 /\ res'.out = SpecHash(res'.object_type, res'.file.content) \o <<10>>
                 /\ SpecStoreUntouched
          /\ ~res'.file.exists =>
                 /\ res'.status = "err"
                 /\ res'.out = <<>>
                 /\ SpecStoreUntouched]_vars

\* a hash-object without the write flag that printed the hash of the object
\* an earlier write stored
C30_Witness ==
    /\ res.op = "hash-object"
    /\ ~res.write
    /\ res.file.exists
    /\ res.status = "ok"
    /\ SpecStored(res.object_type, res.file.content)
    /\ res.out = SpecHash(res.object_type, res.file.content) \o <<10>>

====
